---------------------------- MODULE Spec2Model ----------------------------
(***************************************************************************)
(* Folksonomy pipeline of the Blue Mountains project.                      *)
(*                                                                         *)
(*   stage 1  scripts/01_extract_tags.py   extract_tags_from_items,        *)
(*                                         save_raw_tags                   *)
(*   stage 2  scripts/02_analyze_tags.py   load_tag_data,                  *)
(*            find_similar_tags, detect_hierarchies,                       *)
(*            calculate_cooccurrence, save_similar_tags,                   *)
(*            generate_analysis_report                                     *)
(*                                                                         *)
(* Strings are sequences of code points, so that str.lower(), the `in'     *)
(* substring test, str.split(), sorted() and the string comparisons of the *)
(* scripts are computed and not assumed.  A Python dict is a sequence of   *)
(* entries in insertion order with distinct keys.                          *)
(*                                                                         *)
(* The three similarity scores are those of fuzzywuzzy.fuzz, running on    *)
(* python-Levenshtein when that optional extension is installed and on     *)
(* difflib.SequenceMatcher when it is not (02_analyze_tags.py, lines       *)
(* 159-160, lists it as "optional but recommended").                       *)
(***************************************************************************)
EXTENDS Integers, Sequences, FiniteSets, TLC

(***************************************************************************)
(* Bounds of the model.                                                    *)
(***************************************************************************)
MaxItems == 3

MaxTags == 3

\* flagged records read by stage 3
MaxFlagged == 2

\* children of one flagged record
MaxChildren == 3

\* records of the library when fetch_all_items starts
MaxRecords == 4

\* insertions and deletions at the source during one fetch_all_items
MaxMutations == 2

\* tags in raw_tags.json when a whole run of 02_analyze_tags.py is followed
MaxRunTags == 2

\* the page size of fetch_all_items (100 in the scripts), scaled down so that
\* a library of MaxRecords records takes several pages
limit == 2

(***************************************************************************)
(* Program constants.                                                      *)
(***************************************************************************)
DefaultThreshold == 80

\* rows of the frequency table shown in tag_summary.md
TopTagRows == 20

\* singleton tags listed in tag_summary.md
SingletonExamples == 20

TopPairs == 20

TopHierarchies == 20

TopCooccurrences == 30

TopN == 30

MinEdgeCount == 3

(***************************************************************************)
(* Generic helpers.                                                        *)
(***************************************************************************)
Range(s) == {s[i] : i \in 1..Len(s)}

SetMax(S) == CHOOSE x \in S : \A y \in S : y <= x

SetMin(S) == CHOOSE x \in S : \A y \in S : x <= y

\* sum(s), halving the sequence
RECURSIVE SumSeq(_)
SumSeq(s) ==
    IF s = <<>> THEN 0
    ELSE IF Len(s) = 1 THEN s[1]
    ELSE SumSeq(SubSeq(s, 1, Len(s) \div 2)) + SumSeq(SubSeq(s, Len(s) \div 2 + 1, Len(s)))

RECURSIVE Gcd(_, _)
Gcd(a, b) == IF b = 0 THEN a ELSE Gcd(b, a % b)

(***************************************************************************)
(* Python's true division a / b of two ints, b > 0, kept exact as a        *)
(* fraction in lowest terms, so that 3 / 2 = 6 / 4 and 3 / 2 # 1.          *)
(***************************************************************************)
TrueDiv(a, b) == [num |-> a \div Gcd(a, b), den |-> b \div Gcd(a, b)]

(***************************************************************************)
(* A Python number is a float, kept as the fraction [num, den], or an int, *)
(* kept as [int |-> n] where the two have to be told apart (json.dump      *)
(* writes 0 for the int and 0.0 for the float).  Zero is the int 0 that    *)
(* the conditional expressions of the statistics return.                   *)
(***************************************************************************)
Zero == [int |-> 0]

IsInt(x) == "int" \in DOMAIN x

\* the value of a number as a fraction
AsFraction(x) == IF IsInt(x) THEN [num |-> x.int, den |-> 1] ELSE x

(***************************************************************************)
(* Strings.                                                                *)
(***************************************************************************)
Space == 32

\* the characters from 128 on whose lower case is one other character, in
\* runs <<first, last, step, offset>>: every step-th character from first to
\* last has the lower case character + offset
LowerRuns ==
    << <<192, 214, 1, 32>>, <<216, 222, 1, 32>>, <<256, 302, 2, 1>>, <<306, 310, 2, 1>>,
       <<313, 327, 2, 1>>, <<330, 374, 2, 1>>, <<376, 376, 1, -121>>, <<377, 381, 2, 1>>,
       <<385, 385, 1, 210>>, <<386, 388, 2, 1>>, <<390, 390, 1, 206>>, <<391, 391, 1, 1>>,
       <<393, 394, 1, 205>>, <<395, 395, 1, 1>>, <<398, 398, 1, 79>>, <<399, 399, 1, 202>>,
       <<400, 400, 1, 203>>, <<401, 401, 1, 1>>, <<403, 403, 1, 205>>, <<404, 404, 1, 207>>,
       <<406, 406, 1, 211>>, <<407, 407, 1, 209>>, <<408, 408, 1, 1>>, <<412, 412, 1, 211>>,
       <<413, 413, 1, 213>>, <<415, 415, 1, 214>>, <<416, 420, 2, 1>>, <<422, 422, 1, 218>>,
       <<423, 423, 1, 1>>, <<425, 425, 1, 218>>, <<428, 428, 1, 1>>, <<430, 430, 1, 218>>,
       <<431, 431, 1, 1>>, <<433, 434, 1, 217>>, <<435, 437, 2, 1>>, <<439, 439, 1, 219>>,
       <<440, 440, 1, 1>>, <<444, 444, 1, 1>>, <<452, 452, 1, 2>>, <<453, 453, 1, 1>>,
       <<455, 455, 1, 2>>, <<456, 456, 1, 1>>, <<458, 458, 1, 2>>, <<459, 475, 2, 1>>,
       <<478, 494, 2, 1>>, <<497, 497, 1, 2>>, <<498, 500, 2, 1>>, <<502, 502, 1, -97>>,
       <<503, 503, 1, -56>>, <<504, 542, 2, 1>>, <<544, 544, 1, -130>>, <<546, 562, 2, 1>>,
       <<570, 570, 1, 10795>>, <<571, 571, 1, 1>>, <<573, 573, 1, -163>>, <<574, 574, 1, 10792>>,
       <<577, 577, 1, 1>>, <<579, 579, 1, -195>>, <<580, 580, 1, 69>>, <<581, 581, 1, 71>>,
       <<582, 590, 2, 1>>, <<880, 882, 2, 1>>, <<886, 886, 1, 1>>, <<895, 895, 1, 116>>,
       <<902, 902, 1, 38>>, <<904, 906, 1, 37>>, <<908, 908, 1, 64>>, <<910, 911, 1, 63>>,
       <<913, 929, 1, 32>>, <<932, 939, 1, 32>>, <<975, 975, 1, 8>>, <<984, 1006, 2, 1>>,
       <<1012, 1012, 1, -60>>, <<1015, 1015, 1, 1>>, <<1017, 1017, 1, -7>>, <<1018, 1018, 1, 1>>,
       <<1021, 1023, 1, -130>>, <<1024, 1039, 1, 80>>, <<1040, 1071, 1, 32>>,
       <<1120, 1152, 2, 1>>, <<1162, 1214, 2, 1>>, <<1216, 1216, 1, 15>>, <<1217, 1229, 2, 1>>,
       <<1232, 1326, 2, 1>>, <<1329, 1366, 1, 48>>, <<4256, 4293, 1, 7264>>,
       <<4295, 4295, 1, 7264>>, <<4301, 4301, 1, 7264>>, <<5024, 5103, 1, 38864>>,
       <<5104, 5109, 1, 8>>, <<7312, 7354, 1, -3008>>, <<7357, 7359, 1, -3008>>,
       <<7680, 7828, 2, 1>>, <<7838, 7838, 1, -7615>>, <<7840, 7934, 2, 1>>,
       <<7944, 7951, 1, -8>>, <<7960, 7965, 1, -8>>, <<7976, 7983, 1, -8>>,
       <<7992, 7999, 1, -8>>, <<8008, 8013, 1, -8>>, <<8025, 8031, 2, -8>>,
       <<8040, 8047, 1, -8>>, <<8072, 8079, 1, -8>>, <<8088, 8095, 1, -8>>,
       <<8104, 8111, 1, -8>>, <<8120, 8121, 1, -8>>, <<8122, 8123, 1, -74>>,
       <<8124, 8124, 1, -9>>, <<8136, 8139, 1, -86>>, <<8140, 8140, 1, -9>>,
       <<8152, 8153, 1, -8>>, <<8154, 8155, 1, -100>>, <<8168, 8169, 1, -8>>,
       <<8170, 8171, 1, -112>>, <<8172, 8172, 1, -7>>, <<8184, 8185, 1, -128>>,
       <<8186, 8187, 1, -126>>, <<8188, 8188, 1, -9>>, <<8486, 8486, 1, -7517>>,
       <<8490, 8490, 1, -8383>>, <<8491, 8491, 1, -8262>>, <<8498, 8498, 1, 28>>,
       <<8544, 8559, 1, 16>>, <<8579, 8579, 1, 1>>, <<9398, 9423, 1, 26>>,
       <<11264, 11311, 1, 48>>, <<11360, 11360, 1, 1>>, <<11362, 11362, 1, -10743>>,
       <<11363, 11363, 1, -3814>>, <<11364, 11364, 1, -10727>>, <<11367, 11371, 2, 1>>,
       <<11373, 11373, 1, -10780>>, <<11374, 11374, 1, -10749>>, <<11375, 11375, 1, -10783>>,
       <<11376, 11376, 1, -10782>>, <<11378, 11378, 1, 1>>, <<11381, 11381, 1, 1>>,
       <<11390, 11391, 1, -10815>>, <<11392, 11490, 2, 1>>, <<11499, 11501, 2, 1>>,
       <<11506, 11506, 1, 1>>, <<42560, 42604, 2, 1>>, <<42624, 42650, 2, 1>>,
       <<42786, 42798, 2, 1>>, <<42802, 42862, 2, 1>>, <<42873, 42875, 2, 1>>,
       <<42877, 42877, 1, -35332>>, <<42878, 42886, 2, 1>>, <<42891, 42891, 1, 1>>,
       <<42893, 42893, 1, -42280>>, <<42896, 42898, 2, 1>>, <<42902, 42920, 2, 1>>,
       <<42922, 42922, 1, -42308>>, <<42923, 42923, 1, -42319>>, <<42924, 42924, 1, -42315>>,
       <<42925, 42925, 1, -42305>>, <<42926, 42926, 1, -42308>>, <<42928, 42928, 1, -42258>>,
       <<42929, 42929, 1, -42282>>, <<42930, 42930, 1, -42261>>, <<42931, 42931, 1, 928>>,
       <<42932, 42946, 2, 1>>, <<42948, 42948, 1, -48>>, <<42949, 42949, 1, -42307>>,
       <<42950, 42950, 1, -35384>>, <<42951, 42953, 2, 1>>, <<42960, 42960, 1, 1>>,
       <<42966, 42968, 2, 1>>, <<42997, 42997, 1, 1>>, <<65313, 65338, 1, 32>>,
       <<66560, 66599, 1, 40>>, <<66736, 66771, 1, 40>>, <<66928, 66938, 1, 39>>,
       <<66940, 66954, 1, 39>>, <<66956, 66962, 1, 39>>, <<66964, 66965, 1, 39>>,
       <<68736, 68786, 1, 64>>, <<71840, 71871, 1, 32>>, <<93760, 93791, 1, 32>>,
       <<125184, 125217, 1, 34>> >>

\* the case-ignorable characters, in runs <<first, last>>
CaseIgnorableRuns ==
    << <<39, 39>>, <<46, 46>>, <<58, 58>>, <<94, 94>>, <<96, 96>>, <<168, 168>>, <<173, 173>>,
       <<175, 175>>, <<180, 180>>, <<183, 184>>, <<688, 879>>, <<884, 885>>, <<890, 890>>,
       <<900, 901>>, <<903, 903>>, <<1155, 1161>>, <<1369, 1369>>, <<1375, 1375>>,
       <<1425, 1469>>, <<1471, 1471>>, <<1473, 1474>>, <<1476, 1477>>, <<1479, 1479>>,
       <<1524, 1524>>, <<1536, 1541>>, <<1552, 1562>>, <<1564, 1564>>, <<1600, 1600>>,
       <<1611, 1631>>, <<1648, 1648>>, <<1750, 1757>>, <<1759, 1768>>, <<1770, 1773>>,
       <<1807, 1807>>, <<1809, 1809>>, <<1840, 1866>>, <<1958, 1968>>, <<2027, 2037>>,
       <<2042, 2042>>, <<2045, 2045>>, <<2070, 2093>>, <<2137, 2139>>, <<2184, 2184>>,
       <<2192, 2193>>, <<2200, 2207>>, <<2249, 2306>>, <<2362, 2362>>, <<2364, 2364>>,
       <<2369, 2376>>, <<2381, 2381>>, <<2385, 2391>>, <<2402, 2403>>, <<2417, 2417>>,
       <<2433, 2433>>, <<2492, 2492>>, <<2497, 2500>>, <<2509, 2509>>, <<2530, 2531>>,
       <<2558, 2558>>, <<2561, 2562>>, <<2620, 2620>>, <<2625, 2626>>, <<2631, 2632>>,
       <<2635, 2637>>, <<2641, 2641>>, <<2672, 2673>>, <<2677, 2677>>, <<2689, 2690>>,
       <<2748, 2748>>, <<2753, 2757>>, <<2759, 2760>>, <<2765, 2765>>, <<2786, 2787>>,
       <<2810, 2815>>, <<2817, 2817>>, <<2876, 2876>>, <<2879, 2879>>, <<2881, 2884>>,
       <<2893, 2893>>, <<2901, 2902>>, <<2914, 2915>>, <<2946, 2946>>, <<3008, 3008>>,
       <<3021, 3021>>, <<3072, 3072>>, <<3076, 3076>>, <<3132, 3132>>, <<3134, 3136>>,
       <<3142, 3144>>, <<3146, 3149>>, <<3157, 3158>>, <<3170, 3171>>, <<3201, 3201>>,
       <<3260, 3260>>, <<3263, 3263>>, <<3270, 3270>>, <<3276, 3277>>, <<3298, 3299>>,
       <<3328, 3329>>, <<3387, 3388>>, <<3393, 3396>>, <<3405, 3405>>, <<3426, 3427>>,
       <<3457, 3457>>, <<3530, 3530>>, <<3538, 3540>>, <<3542, 3542>>, <<3633, 3633>>,
       <<3636, 3642>>, <<3654, 3662>>, <<3761, 3761>>, <<3764, 3772>>, <<3782, 3782>>,
       <<3784, 3789>>, <<3864, 3865>>, <<3893, 3893>>, <<3895, 3895>>, <<3897, 3897>>,
       <<3953, 3966>>, <<3968, 3972>>, <<3974, 3975>>, <<3981, 3991>>, <<3993, 4028>>,
       <<4038, 4038>>, <<4141, 4144>>, <<4146, 4151>>, <<4153, 4154>>, <<4157, 4158>>,
       <<4184, 4185>>, <<4190, 4192>>, <<4209, 4212>>, <<4226, 4226>>, <<4229, 4230>>,
       <<4237, 4237>>, <<4253, 4253>>, <<4348, 4348>>, <<4957, 4959>>, <<5906, 5908>>,
       <<5938, 5939>>, <<5970, 5971>>, <<6002, 6003>>, <<6068, 6069>>, <<6071, 6077>>,
       <<6086, 6086>>, <<6089, 6099>>, <<6103, 6103>>, <<6109, 6109>>, <<6155, 6159>>,
       <<6211, 6211>>, <<6277, 6278>>, <<6313, 6313>>, <<6432, 6434>>, <<6439, 6440>>,
       <<6450, 6450>>, <<6457, 6459>>, <<6679, 6680>>, <<6683, 6683>>, <<6742, 6742>>,
       <<6744, 6750>>, <<6752, 6752>>, <<6754, 6754>>, <<6757, 6764>>, <<6771, 6780>>,
       <<6783, 6783>>, <<6823, 6823>>, <<6832, 6862>>, <<6912, 6915>>, <<6964, 6964>>,
       <<6966, 6970>>, <<6972, 6972>>, <<6978, 6978>>, <<7019, 7027>>, <<7040, 7041>>,
       <<7074, 7077>>, <<7080, 7081>>, <<7083, 7085>>, <<7142, 7142>>, <<7144, 7145>>,
       <<7149, 7149>>, <<7151, 7153>>, <<7212, 7219>>, <<7222, 7223>>, <<7288, 7293>>,
       <<7376, 7378>>, <<7380, 7392>>, <<7394, 7400>>, <<7405, 7405>>, <<7412, 7412>>,
       <<7416, 7417>>, <<7468, 7530>>, <<7544, 7544>>, <<7579, 7679>>, <<8125, 8125>>,
       <<8127, 8129>>, <<8141, 8143>>, <<8157, 8159>>, <<8173, 8175>>, <<8189, 8190>>,
       <<8203, 8207>>, <<8216, 8217>>, <<8228, 8228>>, <<8231, 8231>>, <<8234, 8238>>,
       <<8288, 8292>>, <<8294, 8303>>, <<8305, 8305>>, <<8319, 8319>>, <<8336, 8348>>,
       <<8400, 8432>>, <<11388, 11389>>, <<11503, 11505>>, <<11631, 11631>>, <<11647, 11647>>,
       <<11744, 11775>>, <<11823, 11823>>, <<12293, 12293>>, <<12330, 12333>>, <<12337, 12341>>,
       <<12347, 12347>>, <<12441, 12446>>, <<12540, 12542>>, <<40981, 40981>>, <<42232, 42237>>,
       <<42508, 42508>>, <<42607, 42610>>, <<42612, 42621>>, <<42623, 42623>>, <<42652, 42655>>,
       <<42736, 42737>>, <<42752, 42785>>, <<42864, 42864>>, <<42888, 42890>>, <<42994, 42996>>,
       <<43000, 43001>>, <<43010, 43010>>, <<43014, 43014>>, <<43019, 43019>>, <<43045, 43046>>,
       <<43052, 43052>>, <<43204, 43205>>, <<43232, 43249>>, <<43263, 43263>>, <<43302, 43309>>,
       <<43335, 43345>>, <<43392, 43394>>, <<43443, 43443>>, <<43446, 43449>>, <<43452, 43453>>,
       <<43471, 43471>>, <<43493, 43494>>, <<43561, 43566>>, <<43569, 43570>>, <<43573, 43574>>,
       <<43587, 43587>>, <<43596, 43596>>, <<43632, 43632>>, <<43644, 43644>>, <<43696, 43696>>,
       <<43698, 43700>>, <<43703, 43704>>, <<43710, 43711>>, <<43713, 43713>>, <<43741, 43741>>,
       <<43756, 43757>>, <<43763, 43764>>, <<43766, 43766>>, <<43867, 43871>>, <<43881, 43883>>,
       <<44005, 44005>>, <<44008, 44008>>, <<44013, 44013>>, <<64286, 64286>>, <<64434, 64450>>,
       <<65024, 65039>>, <<65043, 65043>>, <<65056, 65071>>, <<65106, 65106>>, <<65109, 65109>>,
       <<65279, 65279>>, <<65287, 65287>>, <<65294, 65294>>, <<65306, 65306>>, <<65342, 65342>>,
       <<65344, 65344>>, <<65392, 65392>>, <<65438, 65439>>, <<65507, 65507>>, <<65529, 65531>>,
       <<66045, 66045>>, <<66272, 66272>>, <<66422, 66426>>, <<67456, 67461>>, <<67463, 67504>>,
       <<67506, 67514>>, <<68097, 68099>>, <<68101, 68102>>, <<68108, 68111>>, <<68152, 68154>>,
       <<68159, 68159>>, <<68325, 68326>>, <<68900, 68903>>, <<69291, 69292>>, <<69446, 69456>>,
       <<69506, 69509>>, <<69633, 69633>>, <<69688, 69702>>, <<69744, 69744>>, <<69747, 69748>>,
       <<69759, 69761>>, <<69811, 69814>>, <<69817, 69818>>, <<69821, 69821>>, <<69826, 69826>>,
       <<69837, 69837>>, <<69888, 69890>>, <<69927, 69931>>, <<69933, 69940>>, <<70003, 70003>>,
       <<70016, 70017>>, <<70070, 70078>>, <<70089, 70092>>, <<70095, 70095>>, <<70191, 70193>>,
       <<70196, 70196>>, <<70198, 70199>>, <<70206, 70206>>, <<70367, 70367>>, <<70371, 70378>>,
       <<70400, 70401>>, <<70459, 70460>>, <<70464, 70464>>, <<70502, 70508>>, <<70512, 70516>>,
       <<70712, 70719>>, <<70722, 70724>>, <<70726, 70726>>, <<70750, 70750>>, <<70835, 70840>>,
       <<70842, 70842>>, <<70847, 70848>>, <<70850, 70851>>, <<71090, 71093>>, <<71100, 71101>>,
       <<71103, 71104>>, <<71132, 71133>>, <<71219, 71226>>, <<71229, 71229>>, <<71231, 71232>>,
       <<71339, 71339>>, <<71341, 71341>>, <<71344, 71349>>, <<71351, 71351>>, <<71453, 71455>>,
       <<71458, 71461>>, <<71463, 71467>>, <<71727, 71735>>, <<71737, 71738>>, <<71995, 71996>>,
       <<71998, 71998>>, <<72003, 72003>>, <<72148, 72151>>, <<72154, 72155>>, <<72160, 72160>>,
       <<72193, 72202>>, <<72243, 72248>>, <<72251, 72254>>, <<72263, 72263>>, <<72273, 72278>>,
       <<72281, 72283>>, <<72330, 72342>>, <<72344, 72345>>, <<72752, 72758>>, <<72760, 72765>>,
       <<72767, 72767>>, <<72850, 72871>>, <<72874, 72880>>, <<72882, 72883>>, <<72885, 72886>>,
       <<73009, 73014>>, <<73018, 73018>>, <<73020, 73021>>, <<73023, 73029>>, <<73031, 73031>>,
       <<73104, 73105>>, <<73109, 73109>>, <<73111, 73111>>, <<73459, 73460>>, <<78896, 78904>>,
       <<92912, 92916>>, <<92976, 92982>>, <<92992, 92995>>, <<94031, 94031>>, <<94095, 94111>>,
       <<94176, 94177>>, <<94179, 94180>>, <<110576, 110579>>, <<110581, 110587>>,
       <<110589, 110590>>, <<113821, 113822>>, <<113824, 113827>>, <<118528, 118573>>,
       <<118576, 118598>>, <<119143, 119145>>, <<119155, 119170>>, <<119173, 119179>>,
       <<119210, 119213>>, <<119362, 119364>>, <<121344, 121398>>, <<121403, 121452>>,
       <<121461, 121461>>, <<121476, 121476>>, <<121499, 121503>>, <<121505, 121519>>,
       <<122880, 122886>>, <<122888, 122904>>, <<122907, 122913>>, <<122915, 122916>>,
       <<122918, 122922>>, <<123184, 123197>>, <<123566, 123566>>, <<123628, 123631>>,
       <<125136, 125142>>, <<125252, 125259>>, <<127995, 127999>>, <<917505, 917505>>,
       <<917536, 917631>>, <<917760, 917999>> >>

\* the cased characters, in runs <<first, last>>
CasedRuns ==
    << <<65, 90>>, <<97, 122>>, <<170, 170>>, <<181, 181>>, <<186, 186>>, <<192, 214>>,
       <<216, 246>>, <<248, 442>>, <<444, 447>>, <<452, 659>>, <<661, 696>>, <<704, 705>>,
       <<736, 740>>, <<837, 837>>, <<880, 883>>, <<886, 887>>, <<890, 893>>, <<895, 895>>,
       <<902, 902>>, <<904, 906>>, <<908, 908>>, <<910, 929>>, <<931, 1013>>, <<1015, 1153>>,
       <<1162, 1327>>, <<1329, 1366>>, <<1376, 1416>>, <<4256, 4293>>, <<4295, 4295>>,
       <<4301, 4301>>, <<4304, 4346>>, <<4349, 4351>>, <<5024, 5109>>, <<5112, 5117>>,
       <<7296, 7304>>, <<7312, 7354>>, <<7357, 7359>>, <<7424, 7615>>, <<7680, 7957>>,
       <<7960, 7965>>, <<7968, 8005>>, <<8008, 8013>>, <<8016, 8023>>, <<8025, 8025>>,
       <<8027, 8027>>, <<8029, 8029>>, <<8031, 8061>>, <<8064, 8116>>, <<8118, 8124>>,
       <<8126, 8126>>, <<8130, 8132>>, <<8134, 8140>>, <<8144, 8147>>, <<8150, 8155>>,
       <<8160, 8172>>, <<8178, 8180>>, <<8182, 8188>>, <<8305, 8305>>, <<8319, 8319>>,
       <<8336, 8348>>, <<8450, 8450>>, <<8455, 8455>>, <<8458, 8467>>, <<8469, 8469>>,
       <<8473, 8477>>, <<8484, 8484>>, <<8486, 8486>>, <<8488, 8488>>, <<8490, 8493>>,
       <<8495, 8500>>, <<8505, 8505>>, <<8508, 8511>>, <<8517, 8521>>, <<8526, 8526>>,
       <<8544, 8575>>, <<8579, 8580>>, <<9398, 9449>>, <<11264, 11492>>, <<11499, 11502>>,
       <<11506, 11507>>, <<11520, 11557>>, <<11559, 11559>>, <<11565, 11565>>, <<42560, 42605>>,
       <<42624, 42653>>, <<42786, 42887>>, <<42891, 42894>>, <<42896, 42954>>, <<42960, 42961>>,
       <<42963, 42963>>, <<42965, 42969>>, <<42997, 42998>>, <<43000, 43002>>, <<43824, 43866>>,
       <<43868, 43880>>, <<43888, 43967>>, <<64256, 64262>>, <<64275, 64279>>, <<65313, 65338>>,
       <<65345, 65370>>, <<66560, 66639>>, <<66736, 66771>>, <<66776, 66811>>, <<66928, 66938>>,
       <<66940, 66954>>, <<66956, 66962>>, <<66964, 66965>>, <<66967, 66977>>, <<66979, 66993>>,
       <<66995, 67001>>, <<67003, 67004>>, <<67456, 67456>>, <<67459, 67461>>, <<67463, 67504>>,
       <<67506, 67514>>, <<68736, 68786>>, <<68800, 68850>>, <<71840, 71903>>, <<93760, 93823>>,
       <<119808, 119892>>, <<119894, 119964>>, <<119966, 119967>>, <<119970, 119970>>,
       <<119973, 119974>>, <<119977, 119980>>, <<119982, 119993>>, <<119995, 119995>>,
       <<119997, 120003>>, <<120005, 120069>>, <<120071, 120074>>, <<120077, 120084>>,
       <<120086, 120092>>, <<120094, 120121>>, <<120123, 120126>>, <<120128, 120132>>,
       <<120134, 120134>>, <<120138, 120144>>, <<120146, 120485>>, <<120488, 120512>>,
       <<120514, 120538>>, <<120540, 120570>>, <<120572, 120596>>, <<120598, 120628>>,
       <<120630, 120654>>, <<120656, 120686>>, <<120688, 120712>>, <<120714, 120744>>,
       <<120746, 120770>>, <<120772, 120779>>, <<122624, 122633>>, <<122635, 122654>>,
       <<125184, 125251>>, <<127280, 127305>>, <<127312, 127337>>, <<127344, 127369>> >>

\* the characters from 128 on that the pattern \w matches (letters and
\* numbers), in runs <<first, last>>
WordRuns ==
    << <<170, 170>>, <<178, 179>>, <<181, 181>>, <<185, 186>>, <<188, 190>>, <<192, 214>>,
       <<216, 246>>, <<248, 705>>, <<710, 721>>, <<736, 740>>, <<748, 748>>, <<750, 750>>,
       <<880, 884>>, <<886, 887>>, <<890, 893>>, <<895, 895>>, <<902, 902>>, <<904, 906>>,
       <<908, 908>>, <<910, 929>>, <<931, 1013>>, <<1015, 1153>>, <<1162, 1327>>, <<1329, 1366>>,
       <<1369, 1369>>, <<1376, 1416>>, <<1488, 1514>>, <<1519, 1522>>, <<1568, 1610>>,
       <<1632, 1641>>, <<1646, 1647>>, <<1649, 1747>>, <<1749, 1749>>, <<1765, 1766>>,
       <<1774, 1788>>, <<1791, 1791>>, <<1808, 1808>>, <<1810, 1839>>, <<1869, 1957>>,
       <<1969, 1969>>, <<1984, 2026>>, <<2036, 2037>>, <<2042, 2042>>, <<2048, 2069>>,
       <<2074, 2074>>, <<2084, 2084>>, <<2088, 2088>>, <<2112, 2136>>, <<2144, 2154>>,
       <<2160, 2183>>, <<2185, 2190>>, <<2208, 2249>>, <<2308, 2361>>, <<2365, 2365>>,
       <<2384, 2384>>, <<2392, 2401>>, <<2406, 2415>>, <<2417, 2432>>, <<2437, 2444>>,
       <<2447, 2448>>, <<2451, 2472>>, <<2474, 2480>>, <<2482, 2482>>, <<2486, 2489>>,
       <<2493, 2493>>, <<2510, 2510>>, <<2524, 2525>>, <<2527, 2529>>, <<2534, 2545>>,
       <<2548, 2553>>, <<2556, 2556>>, <<2565, 2570>>, <<2575, 2576>>, <<2579, 2600>>,
       <<2602, 2608>>, <<2610, 2611>>, <<2613, 2614>>, <<2616, 2617>>, <<2649, 2652>>,
       <<2654, 2654>>, <<2662, 2671>>, <<2674, 2676>>, <<2693, 2701>>, <<2703, 2705>>,
       <<2707, 2728>>, <<2730, 2736>>, <<2738, 2739>>, <<2741, 2745>>, <<2749, 2749>>,
       <<2768, 2768>>, <<2784, 2785>>, <<2790, 2799>>, <<2809, 2809>>, <<2821, 2828>>,
       <<2831, 2832>>, <<2835, 2856>>, <<2858, 2864>>, <<2866, 2867>>, <<2869, 2873>>,
       <<2877, 2877>>, <<2908, 2909>>, <<2911, 2913>>, <<2918, 2927>>, <<2929, 2935>>,
       <<2947, 2947>>, <<2949, 2954>>, <<2958, 2960>>, <<2962, 2965>>, <<2969, 2970>>,
       <<2972, 2972>>, <<2974, 2975>>, <<2979, 2980>>, <<2984, 2986>>, <<2990, 3001>>,
       <<3024, 3024>>, <<3046, 3058>>, <<3077, 3084>>, <<3086, 3088>>, <<3090, 3112>>,
       <<3114, 3129>>, <<3133, 3133>>, <<3160, 3162>>, <<3165, 3165>>, <<3168, 3169>>,
       <<3174, 3183>>, <<3192, 3198>>, <<3200, 3200>>, <<3205, 3212>>, <<3214, 3216>>,
       <<3218, 3240>>, <<3242, 3251>>, <<3253, 3257>>, <<3261, 3261>>, <<3293, 3294>>,
       <<3296, 3297>>, <<3302, 3311>>, <<3313, 3314>>, <<3332, 3340>>, <<3342, 3344>>,
       <<3346, 3386>>, <<3389, 3389>>, <<3406, 3406>>, <<3412, 3414>>, <<3416, 3425>>,
       <<3430, 3448>>, <<3450, 3455>>, <<3461, 3478>>, <<3482, 3505>>, <<3507, 3515>>,
       <<3517, 3517>>, <<3520, 3526>>, <<3558, 3567>>, <<3585, 3632>>, <<3634, 3635>>,
       <<3648, 3654>>, <<3664, 3673>>, <<3713, 3714>>, <<3716, 3716>>, <<3718, 3722>>,
       <<3724, 3747>>, <<3749, 3749>>, <<3751, 3760>>, <<3762, 3763>>, <<3773, 3773>>,
       <<3776, 3780>>, <<3782, 3782>>, <<3792, 3801>>, <<3804, 3807>>, <<3840, 3840>>,
       <<3872, 3891>>, <<3904, 3911>>, <<3913, 3948>>, <<3976, 3980>>, <<4096, 4138>>,
       <<4159, 4169>>, <<4176, 4181>>, <<4186, 4189>>, <<4193, 4193>>, <<4197, 4198>>,
       <<4206, 4208>>, <<4213, 4225>>, <<4238, 4238>>, <<4240, 4249>>, <<4256, 4293>>,
       <<4295, 4295>>, <<4301, 4301>>, <<4304, 4346>>, <<4348, 4680>>, <<4682, 4685>>,
       <<4688, 4694>>, <<4696, 4696>>, <<4698, 4701>>, <<4704, 4744>>, <<4746, 4749>>,
       <<4752, 4784>>, <<4786, 4789>>, <<4792, 4798>>, <<4800, 4800>>, <<4802, 4805>>,
       <<4808, 4822>>, <<4824, 4880>>, <<4882, 4885>>, <<4888, 4954>>, <<4969, 4988>>,
       <<4992, 5007>>, <<5024, 5109>>, <<5112, 5117>>, <<5121, 5740>>, <<5743, 5759>>,
       <<5761, 5786>>, <<5792, 5866>>, <<5870, 5880>>, <<5888, 5905>>, <<5919, 5937>>,
       <<5952, 5969>>, <<5984, 5996>>, <<5998, 6000>>, <<6016, 6067>>, <<6103, 6103>>,
       <<6108, 6108>>, <<6112, 6121>>, <<6128, 6137>>, <<6160, 6169>>, <<6176, 6264>>,
       <<6272, 6276>>, <<6279, 6312>>, <<6314, 6314>>, <<6320, 6389>>, <<6400, 6430>>,
       <<6470, 6509>>, <<6512, 6516>>, <<6528, 6571>>, <<6576, 6601>>, <<6608, 6618>>,
       <<6656, 6678>>, <<6688, 6740>>, <<6784, 6793>>, <<6800, 6809>>, <<6823, 6823>>,
       <<6917, 6963>>, <<6981, 6988>>, <<6992, 7001>>, <<7043, 7072>>, <<7086, 7141>>,
       <<7168, 7203>>, <<7232, 7241>>, <<7245, 7293>>, <<7296, 7304>>, <<7312, 7354>>,
       <<7357, 7359>>, <<7401, 7404>>, <<7406, 7411>>, <<7413, 7414>>, <<7418, 7418>>,
       <<7424, 7615>>, <<7680, 7957>>, <<7960, 7965>>, <<7968, 8005>>, <<8008, 8013>>,
       <<8016, 8023>>, <<8025, 8025>>, <<8027, 8027>>, <<8029, 8029>>, <<8031, 8061>>,
       <<8064, 8116>>, <<8118, 8124>>, <<8126, 8126>>, <<8130, 8132>>, <<8134, 8140>>,
       <<8144, 8147>>, <<8150, 8155>>, <<8160, 8172>>, <<8178, 8180>>, <<8182, 8188>>,
       <<8304, 8305>>, <<8308, 8313>>, <<8319, 8329>>, <<8336, 8348>>, <<8450, 8450>>,
       <<8455, 8455>>, <<8458, 8467>>, <<8469, 8469>>, <<8473, 8477>>, <<8484, 8484>>,
       <<8486, 8486>>, <<8488, 8488>>, <<8490, 8493>>, <<8495, 8505>>, <<8508, 8511>>,
       <<8517, 8521>>, <<8526, 8526>>, <<8528, 8585>>, <<9312, 9371>>, <<9450, 9471>>,
       <<10102, 10131>>, <<11264, 11492>>, <<11499, 11502>>, <<11506, 11507>>, <<11517, 11517>>,
       <<11520, 11557>>, <<11559, 11559>>, <<11565, 11565>>, <<11568, 11623>>, <<11631, 11631>>,
       <<11648, 11670>>, <<11680, 11686>>, <<11688, 11694>>, <<11696, 11702>>, <<11704, 11710>>,
       <<11712, 11718>>, <<11720, 11726>>, <<11728, 11734>>, <<11736, 11742>>, <<11823, 11823>>,
       <<12293, 12295>>, <<12321, 12329>>, <<12337, 12341>>, <<12344, 12348>>, <<12353, 12438>>,
       <<12445, 12447>>, <<12449, 12538>>, <<12540, 12543>>, <<12549, 12591>>, <<12593, 12686>>,
       <<12690, 12693>>, <<12704, 12735>>, <<12784, 12799>>, <<12832, 12841>>, <<12872, 12879>>,
       <<12881, 12895>>, <<12928, 12937>>, <<12977, 12991>>, <<13312, 19903>>, <<19968, 42124>>,
       <<42192, 42237>>, <<42240, 42508>>, <<42512, 42539>>, <<42560, 42606>>, <<42623, 42653>>,
       <<42656, 42735>>, <<42775, 42783>>, <<42786, 42888>>, <<42891, 42954>>, <<42960, 42961>>,
       <<42963, 42963>>, <<42965, 42969>>, <<42994, 43009>>, <<43011, 43013>>, <<43015, 43018>>,
       <<43020, 43042>>, <<43056, 43061>>, <<43072, 43123>>, <<43138, 43187>>, <<43216, 43225>>,
       <<43250, 43255>>, <<43259, 43259>>, <<43261, 43262>>, <<43264, 43301>>, <<43312, 43334>>,
       <<43360, 43388>>, <<43396, 43442>>, <<43471, 43481>>, <<43488, 43492>>, <<43494, 43518>>,
       <<43520, 43560>>, <<43584, 43586>>, <<43588, 43595>>, <<43600, 43609>>, <<43616, 43638>>,
       <<43642, 43642>>, <<43646, 43695>>, <<43697, 43697>>, <<43701, 43702>>, <<43705, 43709>>,
       <<43712, 43712>>, <<43714, 43714>>, <<43739, 43741>>, <<43744, 43754>>, <<43762, 43764>>,
       <<43777, 43782>>, <<43785, 43790>>, <<43793, 43798>>, <<43808, 43814>>, <<43816, 43822>>,
       <<43824, 43866>>, <<43868, 43881>>, <<43888, 44002>>, <<44016, 44025>>, <<44032, 55203>>,
       <<55216, 55238>>, <<55243, 55291>>, <<63744, 64109>>, <<64112, 64217>>, <<64256, 64262>>,
       <<64275, 64279>>, <<64285, 64285>>, <<64287, 64296>>, <<64298, 64310>>, <<64312, 64316>>,
       <<64318, 64318>>, <<64320, 64321>>, <<64323, 64324>>, <<64326, 64433>>, <<64467, 64829>>,
       <<64848, 64911>>, <<64914, 64967>>, <<65008, 65019>>, <<65136, 65140>>, <<65142, 65276>>,
       <<65296, 65305>>, <<65313, 65338>>, <<65345, 65370>>, <<65382, 65470>>, <<65474, 65479>>,
       <<65482, 65487>>, <<65490, 65495>>, <<65498, 65500>>, <<65536, 65547>>, <<65549, 65574>>,
       <<65576, 65594>>, <<65596, 65597>>, <<65599, 65613>>, <<65616, 65629>>, <<65664, 65786>>,
       <<65799, 65843>>, <<65856, 65912>>, <<65930, 65931>>, <<66176, 66204>>, <<66208, 66256>>,
       <<66273, 66299>>, <<66304, 66339>>, <<66349, 66378>>, <<66384, 66421>>, <<66432, 66461>>,
       <<66464, 66499>>, <<66504, 66511>>, <<66513, 66517>>, <<66560, 66717>>, <<66720, 66729>>,
       <<66736, 66771>>, <<66776, 66811>>, <<66816, 66855>>, <<66864, 66915>>, <<66928, 66938>>,
       <<66940, 66954>>, <<66956, 66962>>, <<66964, 66965>>, <<66967, 66977>>, <<66979, 66993>>,
       <<66995, 67001>>, <<67003, 67004>>, <<67072, 67382>>, <<67392, 67413>>, <<67424, 67431>>,
       <<67456, 67461>>, <<67463, 67504>>, <<67506, 67514>>, <<67584, 67589>>, <<67592, 67592>>,
       <<67594, 67637>>, <<67639, 67640>>, <<67644, 67644>>, <<67647, 67669>>, <<67672, 67702>>,
       <<67705, 67742>>, <<67751, 67759>>, <<67808, 67826>>, <<67828, 67829>>, <<67835, 67867>>,
       <<67872, 67897>>, <<67968, 68023>>, <<68028, 68047>>, <<68050, 68096>>, <<68112, 68115>>,
       <<68117, 68119>>, <<68121, 68149>>, <<68160, 68168>>, <<68192, 68222>>, <<68224, 68255>>,
       <<68288, 68295>>, <<68297, 68324>>, <<68331, 68335>>, <<68352, 68405>>, <<68416, 68437>>,
       <<68440, 68466>>, <<68472, 68497>>, <<68521, 68527>>, <<68608, 68680>>, <<68736, 68786>>,
       <<68800, 68850>>, <<68858, 68899>>, <<68912, 68921>>, <<69216, 69246>>, <<69248, 69289>>,
       <<69296, 69297>>, <<69376, 69415>>, <<69424, 69445>>, <<69457, 69460>>, <<69488, 69505>>,
       <<69552, 69579>>, <<69600, 69622>>, <<69635, 69687>>, <<69714, 69743>>, <<69745, 69746>>,
       <<69749, 69749>>, <<69763, 69807>>, <<69840, 69864>>, <<69872, 69881>>, <<69891, 69926>>,
       <<69942, 69951>>, <<69956, 69956>>, <<69959, 69959>>, <<69968, 70002>>, <<70006, 70006>>,
       <<70019, 70066>>, <<70081, 70084>>, <<70096, 70106>>, <<70108, 70108>>, <<70113, 70132>>,
       <<70144, 70161>>, <<70163, 70187>>, <<70272, 70278>>, <<70280, 70280>>, <<70282, 70285>>,
       <<70287, 70301>>, <<70303, 70312>>, <<70320, 70366>>, <<70384, 70393>>, <<70405, 70412>>,
       <<70415, 70416>>, <<70419, 70440>>, <<70442, 70448>>, <<70450, 70451>>, <<70453, 70457>>,
       <<70461, 70461>>, <<70480, 70480>>, <<70493, 70497>>, <<70656, 70708>>, <<70727, 70730>>,
       <<70736, 70745>>, <<70751, 70753>>, <<70784, 70831>>, <<70852, 70853>>, <<70855, 70855>>,
       <<70864, 70873>>, <<71040, 71086>>, <<71128, 71131>>, <<71168, 71215>>, <<71236, 71236>>,
       <<71248, 71257>>, <<71296, 71338>>, <<71352, 71352>>, <<71360, 71369>>, <<71424, 71450>>,
       <<71472, 71483>>, <<71488, 71494>>, <<71680, 71723>>, <<71840, 71922>>, <<71935, 71942>>,
       <<71945, 71945>>, <<71948, 71955>>, <<71957, 71958>>, <<71960, 71983>>, <<71999, 71999>>,
       <<72001, 72001>>, <<72016, 72025>>, <<72096, 72103>>, <<72106, 72144>>, <<72161, 72161>>,
       <<72163, 72163>>, <<72192, 72192>>, <<72203, 72242>>, <<72250, 72250>>, <<72272, 72272>>,
       <<72284, 72329>>, <<72349, 72349>>, <<72368, 72440>>, <<72704, 72712>>, <<72714, 72750>>,
       <<72768, 72768>>, <<72784, 72812>>, <<72818, 72847>>, <<72960, 72966>>, <<72968, 72969>>,
       <<72971, 73008>>, <<73030, 73030>>, <<73040, 73049>>, <<73056, 73061>>, <<73063, 73064>>,
       <<73066, 73097>>, <<73112, 73112>>, <<73120, 73129>>, <<73440, 73458>>, <<73648, 73648>>,
       <<73664, 73684>>, <<73728, 74649>>, <<74752, 74862>>, <<74880, 75075>>, <<77712, 77808>>,
       <<77824, 78894>>, <<82944, 83526>>, <<92160, 92728>>, <<92736, 92766>>, <<92768, 92777>>,
       <<92784, 92862>>, <<92864, 92873>>, <<92880, 92909>>, <<92928, 92975>>, <<92992, 92995>>,
       <<93008, 93017>>, <<93019, 93025>>, <<93027, 93047>>, <<93053, 93071>>, <<93760, 93846>>,
       <<93952, 94026>>, <<94032, 94032>>, <<94099, 94111>>, <<94176, 94177>>, <<94179, 94179>>,
       <<94208, 100343>>, <<100352, 101589>>, <<101632, 101640>>, <<110576, 110579>>,
       <<110581, 110587>>, <<110589, 110590>>, <<110592, 110882>>, <<110928, 110930>>,
       <<110948, 110951>>, <<110960, 111355>>, <<113664, 113770>>, <<113776, 113788>>,
       <<113792, 113800>>, <<113808, 113817>>, <<119520, 119539>>, <<119648, 119672>>,
       <<119808, 119892>>, <<119894, 119964>>, <<119966, 119967>>, <<119970, 119970>>,
       <<119973, 119974>>, <<119977, 119980>>, <<119982, 119993>>, <<119995, 119995>>,
       <<119997, 120003>>, <<120005, 120069>>, <<120071, 120074>>, <<120077, 120084>>,
       <<120086, 120092>>, <<120094, 120121>>, <<120123, 120126>>, <<120128, 120132>>,
       <<120134, 120134>>, <<120138, 120144>>, <<120146, 120485>>, <<120488, 120512>>,
       <<120514, 120538>>, <<120540, 120570>>, <<120572, 120596>>, <<120598, 120628>>,
       <<120630, 120654>>, <<120656, 120686>>, <<120688, 120712>>, <<120714, 120744>>,
       <<120746, 120770>>, <<120772, 120779>>, <<120782, 120831>>, <<122624, 122654>>,
       <<123136, 123180>>, <<123191, 123197>>, <<123200, 123209>>, <<123214, 123214>>,
       <<123536, 123565>>, <<123584, 123627>>, <<123632, 123641>>, <<124896, 124902>>,
       <<124904, 124907>>, <<124909, 124910>>, <<124912, 124926>>, <<124928, 125124>>,
       <<125127, 125135>>, <<125184, 125251>>, <<125259, 125259>>, <<125264, 125273>>,
       <<126065, 126123>>, <<126125, 126127>>, <<126129, 126132>>, <<126209, 126253>>,
       <<126255, 126269>>, <<126464, 126467>>, <<126469, 126495>>, <<126497, 126498>>,
       <<126500, 126500>>, <<126503, 126503>>, <<126505, 126514>>, <<126516, 126519>>,
       <<126521, 126521>>, <<126523, 126523>>, <<126530, 126530>>, <<126535, 126535>>,
       <<126537, 126537>>, <<126539, 126539>>, <<126541, 126543>>, <<126545, 126546>>,
       <<126548, 126548>>, <<126551, 126551>>, <<126553, 126553>>, <<126555, 126555>>,
       <<126557, 126557>>, <<126559, 126559>>, <<126561, 126562>>, <<126564, 126564>>,
       <<126567, 126570>>, <<126572, 126578>>, <<126580, 126583>>, <<126585, 126588>>,
       <<126590, 126590>>, <<126592, 126601>>, <<126603, 126619>>, <<126625, 126627>>,
       <<126629, 126633>>, <<126635, 126651>>, <<127232, 127244>>, <<130032, 130041>>,
       <<131072, 173791>>, <<173824, 177976>>, <<177984, 178205>>, <<178208, 183969>>,
       <<183984, 191456>>, <<194560, 195101>>, <<196608, 201546>> >>

InRuns(c, runs) == \E k \in 1..Len(runs) : runs[k][1] <= c /\ c <= runs[k][2]

\* the lower case of one character, as a string: only U+0130 gives two
\* characters
lowerChar(c) ==
    IF c < 128 THEN <<IF c >= 65 /\ c <= 90 THEN c + 32 ELSE c>>
    ELSE IF c = 304 THEN <<105, 775>>
    ELSE LET hit == {k \in 1..Len(LowerRuns) :
                        /\ LowerRuns[k][1] <= c /\ c <= LowerRuns[k][2]
                        /\ (c - LowerRuns[k][1]) % LowerRuns[k][3] = 0}
         IN  IF hit = {} THEN <<c>> ELSE <<c + LowerRuns[CHOOSE k \in hit : TRUE][4]>>

\* the nearest character at or before position j (dir = -1), or at or after
\* it (dir = 1), that is not case-ignorable is a cased one
CasedNeighbour(s, j, dir) ==
    LET stops == {k \in 1..Len(s) : /\ (IF dir < 0 THEN k <= j ELSE k >= j)
                                    /\ ~InRuns(s[k], CaseIgnorableRuns)}
    IN  /\ stops # {}
        /\ InRuns(s[IF dir < 0 THEN SetMax(stops) ELSE SetMin(stops)], CasedRuns)

\* the lower case of a capital sigma at position i: the final form after a
\* cased letter at the end of a word
handle_capital_sigma(s, i) ==
    IF CasedNeighbour(s, i - 1, -1) /\ ~CasedNeighbour(s, i + 1, 1) THEN 962 ELSE 963

\* the lower case of s[lo..hi], halving the range
RECURSIVE lowerRange(_, _, _)
lowerRange(s, lo, hi) ==
    IF lo > hi THEN <<>>
    ELSE IF lo = hi
        THEN (IF s[lo] = 931 THEN <<handle_capital_sigma(s, lo)>> ELSE lowerChar(s[lo]))
    ELSE lowerRange(s, lo, (lo + hi) \div 2) \o lowerRange(s, (lo + hi) \div 2 + 1, hi)

\* str.lower()
lower(s) == lowerRange(s, 1, Len(s))

\* Python's < on str: lexicographic on code points
StrLess(s, t) ==
    LET diff == {k \in 1..(IF Len(s) < Len(t) THEN Len(s) ELSE Len(t)) : s[k] # t[k]}
    IN  IF diff = {} THEN Len(s) < Len(t)
        ELSE s[SetMin(diff)] < t[SetMin(diff)]

\* Python's   s in t   on str
IsSubstring(s, t) ==
    \E i \in 0..(Len(t) - Len(s)) :
        \A k \in 1..Len(s) : t[i + k] = s[k]

\* sorted() of a set of strings
RECURSIVE SortedStrs(_)
SortedStrs(S) ==
    IF S = {} THEN <<>>
    ELSE LET m == CHOOSE x \in S : \A y \in S \ {x} : StrLess(x, y)
         IN  <<m>> \o SortedStrs(S \ {m})

\* sorted() of a list of strings (duplicates kept): the string at index k
\* comes after the strings less than it and the equal ones before index k
SortedList(s) ==
    [r \in 1..Len(s) |->
        s[CHOOSE k \in 1..Len(s) :
            Cardinality({j \in 1..Len(s) : StrLess(s[j], s[k]) \/ (s[j] = s[k] /\ j < k)})
                = r - 1]]

(***************************************************************************)
(* difflib.SequenceMatcher(None, a, b), as fuzzywuzzy constructs it: no    *)
(* junk function, and autojunk left at True.  Indices are Python's:        *)
(* 0-based, half-open.                                                     *)
(***************************************************************************)
\* __chain_b: when b has 200 or more elements, the elements that occur more
\* than len(b) // 100 + 1 times are popular and are left out of b2j
bpopular(b) ==
    IF Len(b) >= 200
    THEN {c \in Range(b) : Cardinality({k \in 1..Len(b) : b[k] = c}) > Len(b) \div 100 + 1}
    ELSE {}

\* length of the common run of a[i:ahi] and b[j:bhi], stopped by an element
\* of b that is in junk
RunLen(a, b, i, ahi, j, bhi, junk) ==
    LET lim == IF ahi - i < bhi - j THEN ahi - i ELSE bhi - j
    IN  SetMin({d \in 0..lim : \/ d = lim
                               \/ a[i + d + 1] # b[j + d + 1]
                               \/ b[j + d + 1] \in junk})

\* length of the common run that ends just before a[i] and b[j] and stays in
\* a[alo:] and b[blo:]
BackLen(a, b, i, alo, j, blo) ==
    LET lim == IF i - alo < j - blo THEN i - alo ELSE j - blo
    IN  SetMin({d \in 0..lim : d = lim \/ a[i - d] # b[j - d]})

\* find_longest_match: the longest common block of a[alo:ahi] and b[blo:bhi]
\* that has no popular element; of the longest ones the one starting earliest
\* in a, and of those the one starting earliest in b; size 0 at (alo, blo)
\* when there is none.  The block is then extended to the left and to the
\* right as far as the elements are equal, popular ones included (no element
\* is junk, isjunk being None).
find_longest_match(a, b, alo, ahi, blo, bhi, popular) ==
    LET Cand == {c \in (alo..(ahi - 1)) \X (blo..(bhi - 1)) :
                    /\ a[c[1] + 1] = b[c[2] + 1]
                    /\ b[c[2] + 1] \notin popular
                    /\ \/ c[1] = alo
                       \/ c[2] = blo
                       \/ a[c[1]] # b[c[2]]
                       \/ b[c[2]] \in popular}
        best == IF Cand = {} THEN 0
                ELSE SetMax({RunLen(a, b, c[1], ahi, c[2], bhi, popular) : c \in Cand})
        Best == {c \in Cand : RunLen(a, b, c[1], ahi, c[2], bhi, popular) = best}
        besti == IF Cand = {} THEN alo ELSE SetMin({c[1] : c \in Best})
        bestj == IF Cand = {} THEN blo ELSE SetMin({c[2] : c \in {d \in Best : d[1] = besti}})
        back == BackLen(a, b, besti, alo, bestj, blo)
        forth == RunLen(a, b, besti + best, ahi, bestj + best, bhi, {})
    IN  [i |-> besti - back, j |-> bestj - back, size |-> back + best + forth]

\* the blocks get_matching_blocks collects: the longest match, then
\* recursively the pieces to its left and to its right, sorted by position
RECURSIVE matching_blocks(_, _, _, _, _, _, _)
\* the blocks of a[alo:ahi] and b[blo:bhi] given their longest match x
blocks_around(a, b, alo, ahi, blo, bhi, popular, x) ==
    IF x.size = 0 THEN <<>>
    ELSE (IF alo < x.i /\ blo < x.j
          THEN matching_blocks(a, b, alo, x.i, blo, x.j, popular) ELSE <<>>)
         \o <<x>> \o
         (IF x.i + x.size < ahi /\ x.j + x.size < bhi
          THEN matching_blocks(a, b, x.i + x.size, ahi, x.j + x.size, bhi, popular)
          ELSE <<>>)

matching_blocks(a, b, alo, ahi, blo, bhi, popular) ==
    blocks_around(a, b, alo, ahi, blo, bhi, popular,
                  find_longest_match(a, b, alo, ahi, blo, bhi, popular))

\* the blocks with every run of adjacent blocks (i1 + k1 = i2 and
\* j1 + k1 = j2) collapsed into one
non_adjacent(blocks) ==
    LET first == {k \in 1..Len(blocks) :
                     \/ k = 1
                     \/ blocks[k - 1].i + blocks[k - 1].size # blocks[k].i
                     \/ blocks[k - 1].j + blocks[k - 1].size # blocks[k].j}
        from(r) == CHOOSE k \in first : Cardinality({x \in first : x < k}) = r - 1
        to(k) == SetMin({e \in k..Len(blocks) : e = Len(blocks) \/ e + 1 \in first})
    IN  [r \in 1..Cardinality(first) |->
            [i |-> blocks[from(r)].i, j |-> blocks[from(r)].j,
             size |-> SumSeq([k \in 1..(to(from(r)) - from(r) + 1) |->
                                 blocks[from(r) + k - 1].size])]]

\* get_matching_blocks: the blocks followed by the dummy (len(a), len(b), 0)
get_matching_blocks(a, b) ==
    non_adjacent(matching_blocks(a, b, 0, Len(a), 0, Len(b), bpopular(b)))
        \o <<[i |-> Len(a), j |-> Len(b), size |-> 0]>>

\* SequenceMatcher.ratio() = 2.0 * matches / (len(a) + len(b)), 1.0 for two
\* empty sequences; kept as the exact fraction
SumSizes(blocks) == SumSeq([k \in 1..Len(blocks) |-> blocks[k].size])

Matches(a, b) == SumSizes(get_matching_blocks(a, b))

sm_ratio(a, b) ==
    IF Len(a) + Len(b) = 0 THEN [num |-> 1, den |-> 1]
    ELSE [num |-> 2 * Matches(a, b), den |-> Len(a) + Len(b)]

(***************************************************************************)
(* utils.intr(100 * r) = int(round(100 * r)) on the float r = 2.0 * M / T. *)
(* Off a tie the float is far closer to 100 * r than to a half, and the    *)
(* result is the nearest integer.  On a tie, 100 * r = k + 1/2 exactly, the *)
(* result depends on the two roundings of the float arithmetic:            *)
(*   r = p / 200 with p = 2k + 1; 2^-a <= r < 2^(1-a) gives the binade of   *)
(*   r, and the fraction of r * 2^(52+a) that the division rounds away is  *)
(*   rem / 200 with rem = p * 2^(52+a) mod 200;                            *)
(*   the product with 100 lies within half a unit of k + 1/2, and is       *)
(*   rounded to k + 1/2 itself, when p * 2^a >= 256 (its unit is 128 units *)
(*   of r) or when the error of the division is at most 0.32 units of r;   *)
(*   round() then takes k + 1/2 to the even neighbour;                     *)
(*   otherwise the product is the float next to k + 1/2, below it when the *)
(*   division rounded down (rem < 100) and above it when it rounded up.    *)
(***************************************************************************)
RECURSIVE Pow2Mod(_, _)
Pow2Mod(n, m) == IF n = 0 THEN 1 % m ELSE (2 * Pow2Mod(n - 1, m)) % m

\* the a with 2^-a <= p / 200 < 2^(1-a), from a candidate on
RECURSIVE BinadeOf(_, _)
BinadeOf(p, a) == IF p * (2 ^ a) >= 200 THEN a ELSE BinadeOf(p, a + 1)

HalfToEven(k) == IF k % 2 = 0 THEN k ELSE k + 1

\* the result on a tie 100 * r = k + 1/2
RoundTie(k, a, rem) ==
    IF (2 * k + 1) * (2 ^ a) >= 256 \/ rem <= 64 \/ rem >= 136 THEN HalfToEven(k)
    ELSE IF rem < 100 THEN k
    ELSE k + 1

intr100(r) ==
    LET n == 100 * r.num
        q == n \div r.den
        m == n % r.den
    IN  IF 2 * m < r.den THEN q
        ELSE IF 2 * m > r.den THEN q + 1
        ELSE RoundTie(q, BinadeOf(2 * q + 1, 0),
                      ((2 * q + 1) * Pow2Mod(52 + BinadeOf(2 * q + 1, 0), 200)) % 200)

\* r1 < r2 on fractions
FracLess(r1, r2) == r1.num * r2.den < r2.num * r1.den

(***************************************************************************)
(* python-Levenshtein, which fuzzywuzzy's StringMatcher wraps when it can  *)
(* be imported.                                                            *)
(***************************************************************************)
Min3(x, y, z) == IF x <= y /\ x <= z THEN x ELSE IF y <= z THEN y ELSE z

\* the running minima of u: the entry at k is the least of u[1..k]; the
\* sequence is halved, and the minima of the second half take in the last
\* one of the first half
RECURSIVE PrefixMin(_)
PrefixMin(u) ==
    IF Len(u) <= 1 THEN u
    ELSE CHOOSE r \in {left \o [k \in 1..Len(right) |->
                                  IF left[Len(left)] < right[k] THEN left[Len(left)]
                                  ELSE right[k]] :
                          left \in {PrefixMin(SubSeq(u, 1, Len(u) \div 2))},
                          right \in {PrefixMin(SubSeq(u, Len(u) \div 2 + 1, Len(u)))}} : TRUE

\* one row of the cost matrix from the row above it: the entry for column j
\* is the cost of turning the first i characters of a (c is the i-th) into
\* the first j characters of b, a replacement costing xcost.  It is the
\* least of   prev[j - 1] + (0 or xcost),  prev[j] + 1   and   row[j - 1] + 1;
\* with the last one unrolled, row[j] - j is the running minimum of the
\* other two less their column, starting from the entry of column 0
CostRow(prev, c, b, xcost) ==
    LET least == PrefixMin([k \in 1..(Len(b) + 1) |->
                     IF k = 1 THEN prev[1] + 1
                     ELSE (IF prev[k - 1] + (IF c = b[k - 1] THEN 0 ELSE xcost) <= prev[k] + 1
                           THEN prev[k - 1] + (IF c = b[k - 1] THEN 0 ELSE xcost)
                           ELSE prev[k] + 1) - (k - 1)])
    IN  <<>> \o [k \in 1..(Len(b) + 1) |-> least[k] + (k - 1)]

\* the rows for a[lo..hi] given the row above them, halving the range
RECURSIVE CostRows(_, _, _, _, _, _)
CostRows(a, b, xcost, prev, lo, hi) ==
    IF lo > hi THEN <<>>
    ELSE IF lo = hi THEN <<CostRow(prev, a[lo], b, xcost)>>
    ELSE CHOOSE r \in {upper \o CostRows(a, b, xcost, upper[Len(upper)],
                                         (lo + hi) \div 2 + 1, hi) :
                          upper \in {CostRows(a, b, xcost, prev, lo, (lo + hi) \div 2)}} : TRUE

\* matrix[i + 1][j + 1] = cost of turning a[:i] into b[:j]
CostMatrix(a, b, xcost) ==
    <<[j \in 1..(Len(b) + 1) |-> j - 1]>>
        \o CostRows(a, b, xcost, [j \in 1..(Len(b) + 1) |-> j - 1], 1, Len(a))

lev_edit_distance(a, b, xcost) == CostMatrix(a, b, xcost)[Len(a) + 1][Len(b) + 1]

\* Levenshtein.ratio = (lensum - ldist) / lensum, with ldist the distance in
\* which a replacement costs 2; kept as the exact fraction
lev_ratio(a, b) ==
    IF Len(a) + Len(b) = 0 THEN [num |-> 1, den |-> 1]
    ELSE [num |-> Len(a) + Len(b) - lev_edit_distance(a, b, 2), den |-> Len(a) + Len(b)]

Reverse(s) == [k \in 1..Len(s) |-> s[Len(s) + 1 - k]]

\* editops_from_cost_matrix: one step of the walk back from the last cell of
\* the matrix (replacement cost 1) of x against y.  The walk is at cell
\* (i, j); dir is the direction of the last step, -1 after an insertion and
\* 1 after a deletion; keep tells that the last step kept a character.  The
\* walk ends at (0, 0), and where no step applies.
WalkStep(x, y, m, at) ==
    LET i == at.i
        j == at.j
        dir == at.dir
    IN  IF i = 0 /\ j = 0 THEN [at EXCEPT !.keep = FALSE]
        ELSE IF dir < 0 /\ j > 0 /\ m[i + 1][j + 1] = m[i + 1][j] + 1
            THEN [i |-> i, j |-> j - 1, dir |-> dir, keep |-> FALSE]
        ELSE IF dir > 0 /\ i > 0 /\ m[i + 1][j + 1] = m[i][j + 1] + 1
            THEN [i |-> i - 1, j |-> j, dir |-> dir, keep |-> FALSE]
        ELSE IF i > 0 /\ j > 0 /\ m[i + 1][j + 1] = m[i][j] /\ x[i] = y[j]
            THEN [i |-> i - 1, j |-> j - 1, dir |-> 0, keep |-> TRUE]
        ELSE IF i > 0 /\ j > 0 /\ m[i + 1][j + 1] = m[i][j] + 1
            THEN [i |-> i - 1, j |-> j - 1, dir |-> 0, keep |-> FALSE]
        ELSE IF dir = 0 /\ j > 0 /\ m[i + 1][j + 1] = m[i + 1][j] + 1
            THEN [i |-> i, j |-> j - 1, dir |-> -1, keep |-> FALSE]
        ELSE IF dir = 0 /\ i > 0 /\ m[i + 1][j + 1] = m[i][j + 1] + 1
            THEN [i |-> i - 1, j |-> j, dir |-> 1, keep |-> FALSE]
        ELSE [i |-> 0, j |-> 0, dir |-> 0, keep |-> FALSE]

\* the n >= 1 places the walk reaches from `at', halving the number of steps
RECURSIVE WalkPath(_, _, _, _, _)
WalkPath(x, y, m, at, n) ==
    IF n = 1 THEN <<WalkStep(x, y, m, at)>>
    ELSE CHOOSE r \in {first \o WalkPath(x, y, m, first[Len(first)], n - n \div 2) :
                          first \in {WalkPath(x, y, m, at, n \div 2)}} : TRUE

\* the set of the cells <<i, j>> where the walk from cell (i, j) keeps a
\* character (x[i] = y[j])
KeptCells(x, y, m, i, j, dir) ==
    IF i + j = 0 THEN {}
    ELSE {<<at.i + 1, at.j + 1>> :
            at \in {p \in Range(WalkPath(x, y, m,
                                          [i |-> i, j |-> j, dir |-> dir, keep |-> FALSE],
                                          i + j)) : p.keep}}

\* lev_editops_find: the common prefix (pre characters) and the common suffix
\* (suf characters) are kept, the walk runs on what is between them; the
\* result is the set of the kept index pairs <<i, j>> (0-based, a[i] = b[j])
KeptMiddle(x, y, pre) ==
    {<<c[1] + pre - 1, c[2] + pre - 1>> :
        c \in UNION {KeptCells(x, y, m, Len(x), Len(y), 0) : m \in {CostMatrix(x, y, 1)}}}

KeptOutside(a, b, pre, suf) ==
    {<<k, k>> : k \in 0..(pre - 1)} \cup {<<Len(a) - k, Len(b) - k>> : k \in 1..suf}

KeptAround(a, b, pre, suf) ==
    KeptOutside(a, b, pre, suf)
        \cup KeptMiddle(SubSeq(a, pre + 1, Len(a) - suf), SubSeq(b, pre + 1, Len(b) - suf), pre)

KeptAfter(a, b, pre) ==
    KeptAround(a, b, pre,
               RunLen(Reverse(SubSeq(a, pre + 1, Len(a))), Reverse(SubSeq(b, pre + 1, Len(b))),
                      0, Len(a) - pre, 0, Len(b) - pre, {}))

Kept(a, b) == KeptAfter(a, b, RunLen(a, b, 0, Len(a), 0, Len(b), {}))

\* the length of the run of kept cells that starts at <<i, j>>
KeptRun(kept, i, j) ==
    SetMin({d \in 0..Cardinality(kept) : <<i + d, j + d>> \notin kept})

\* Levenshtein.matching_blocks of the opcodes of the edit operations: the
\* maximal runs of kept characters and the dummy (len(a), len(b), 0)
BlocksOf(a, b, kept) ==
    {[i |-> c[1], j |-> c[2], size |-> KeptRun(kept, c[1], c[2])] :
        c \in {d \in kept : <<d[1] - 1, d[2] - 1>> \notin kept}}
        \cup {[i |-> Len(a), j |-> Len(b), size |-> 0]}

lev_matching_blocks(a, b) == BlocksOf(a, b, Kept(a, b))

(***************************************************************************)
(* fuzzywuzzy.fuzz.  Its SequenceMatcher is StringMatcher, a wrapper of    *)
(* python-Levenshtein, when that optional package can be imported, and     *)
(* difflib.SequenceMatcher otherwise.                                      *)
(***************************************************************************)
Backends == {"difflib", "Levenshtein"}

\* a run that does not import fuzzywuzzy
NotImported == "not imported"

\* m.ratio()
matcher_ratio(m, a, b) == IF m = "Levenshtein" THEN lev_ratio(a, b) ELSE sm_ratio(a, b)

\* m.get_matching_blocks(), as a set
matcher_blocks(m, a, b) ==
    IF m = "Levenshtein" THEN lev_matching_blocks(a, b)
    ELSE {get_matching_blocks(a, b)[k] : k \in 1..Len(get_matching_blocks(a, b))}

\* fuzz.ratio: 100 for equal strings, 0 when one is empty, else the ratio
ratio_by(m, s1, s2) ==
    IF s1 = s2 THEN 100
    ELSE IF Len(s1) = 0 \/ Len(s2) = 0 THEN 0
    ELSE intr100(matcher_ratio(m, s1, s2))

\* fuzz.partial_ratio: the shorter string (the first one when the lengths are
\* equal) against the window of the longer string each matching block aligns
\* it with; the best of these ratios
long_start(block) == IF block.j - block.i > 0 THEN block.j - block.i ELSE 0

\* longer[long_start:long_end]
long_substr(longer, from, to) ==
    SubSeq(longer, from + 1, IF to < Len(longer) THEN to ELSE Len(longer))

\* the ratio of the shorter string against the window one block aligns it with
partial_score(m, shorter, longer, block) ==
    matcher_ratio(m, shorter,
                  long_substr(longer, long_start(block), long_start(block) + Len(shorter)))

partial_scores(m, shorter, longer, blocks) ==
    {partial_score(m, shorter, longer, block) : block \in blocks}

\* max(scores)
MaxFrac(scores) == CHOOSE r \in scores : \A o \in scores : ~FracLess(r, o)

partial_ratio_of(m, shorter, longer) ==
    intr100(MaxFrac(partial_scores(m, shorter, longer, matcher_blocks(m, shorter, longer))))

partial_ratio_by(m, s1, s2) ==
    IF s1 = s2 THEN 100
    ELSE IF Len(s1) = 0 \/ Len(s2) = 0 THEN 0
    ELSE IF Len(s1) <= Len(s2) THEN partial_ratio_of(m, s1, s2)
    ELSE partial_ratio_of(m, s2, s1)

\* utils.asciidammit on a str: the characters 128..255 are deleted
asciidammit(s) == SelectSeq(s, LAMBDA c : c < 128 \/ c > 255)

\* the characters the pattern \w matches: letters, numbers and '_'
IsWordChar(c) ==
    \/ c >= 48 /\ c <= 57
    \/ c >= 65 /\ c <= 90
    \/ c = 95
    \/ c >= 97 /\ c <= 122
    \/ c >= 128 /\ InRuns(c, WordRuns)

\* s.lstrip(), s.rstrip() of a string whose only whitespace is the space
lstrip(s) ==
    LET keep == {k \in 1..Len(s) : s[k] # Space}
    IN  IF keep = {} THEN <<>> ELSE SubSeq(s, SetMin(keep), Len(s))

rstrip(s) ==
    LET keep == {k \in 1..Len(s) : s[k] # Space}
    IN  IF keep = {} THEN <<>> ELSE SubSeq(s, 1, SetMax(keep))

strip(s) == rstrip(lstrip(s))

\* utils.full_process(s, force_ascii=True): asciidammit, then every character
\* that \w does not match becomes a space, then lower, strip
full_process(s) ==
    LET t == asciidammit(s)
    IN  strip(lower([i \in 1..Len(t) |-> IF IsWordChar(t[i]) THEN t[i] ELSE Space]))

\* str.split(): the maximal runs of non-space characters, in order
split(s) ==
    LET first == {k \in 1..Len(s) : s[k] # Space /\ (k = 1 \/ s[k - 1] = Space)}
        from(r) == CHOOSE k \in first : Cardinality({x \in first : x < k}) = r - 1
        to(k) == SetMin({e \in k..Len(s) : e = Len(s) \/ s[e + 1] = Space})
    IN  [r \in 1..Cardinality(first) |-> SubSeq(s, from(r), to(from(r)))]

\* " ".join(tokens), halving the list
RECURSIVE join(_)
join(tokens) ==
    IF tokens = <<>> THEN <<>>
    ELSE IF Len(tokens) = 1 THEN tokens[1]
    ELSE join(SubSeq(tokens, 1, Len(tokens) \div 2)) \o <<Space>>
             \o join(SubSeq(tokens, Len(tokens) \div 2 + 1, Len(tokens)))

\* fuzz._process_and_sort
process_and_sort(s) == strip(join(SortedList(split(full_process(s)))))

\* fuzz.token_sort_ratio
token_sort_ratio_by(m, s1, s2) == ratio_by(m, process_and_sort(s1), process_and_sort(s2))

\* the matcher fuzzywuzzy found when the script imported it
VARIABLE backend

fuzz_ratio(s1, s2) == ratio_by(backend, s1, s2)

fuzz_partial_ratio(s1, s2) == partial_ratio_by(backend, s1, s2)

fuzz_token_sort_ratio(s1, s2) == token_sort_ratio_by(backend, s1, s2)

(***************************************************************************)
(* Python dicts: entries [key, val] in insertion order, keys distinct.     *)
(***************************************************************************)
DictKeys(d) == [k \in 1..Len(d) |-> d[k].key]

DictHas(d, key) == \E k \in 1..Len(d) : d[k].key = key

DictGet(d, key) == d[CHOOSE k \in 1..Len(d) : d[k].key = key].val

\* d[key] = val: a new key is appended, an existing key keeps its position
DictPut(d, key, val) ==
    IF DictHas(d, key)
    THEN [k \in 1..Len(d) |-> IF d[k].key = key THEN [key |-> key, val |-> val] ELSE d[k]]
    ELSE Append(d, [key |-> key, val |-> val])

\* record.get(field, default)
Get(rec, field, default) == IF field \in DOMAIN rec THEN rec[field] ELSE default

(***************************************************************************)
(* The tag names and the records the model draws its inputs from.          *)
(***************************************************************************)
Mining == <<77, 105, 110, 105, 110, 103>>

Katoomba == <<75, 97, 116, 111, 111, 109, 98, 97>>

mining == <<109, 105, 110, 105, 110, 103>>

Mine == <<77, 105, 110, 101>>

mine == <<109, 105, 110, 101>>

coal_mine == <<99, 111, 97, 108, 32, 109, 105, 110, 101>>

mine_coal == <<109, 105, 110, 101, 32, 99, 111, 97, 108>>

mines == <<109, 105, 110, 101, 115>>

tide == <<116, 105, 100, 101>>

diet == <<100, 105, 101, 116>>

EmptyName == <<>>

NoTitle == "[No Title]"

TagObj(name) == [tag |-> name]

\* records as fetch_all_items returns them: {'key': ..., 'data': {...}}
SourceRecords ==
    { [key |-> "R1", data |-> [title |-> "T1", tags |-> <<TagObj(Mining), TagObj(Katoomba)>>]],
      [key |-> "R2", data |-> [title |-> "T2", tags |-> <<TagObj(Mining)>>]],
      [key |-> "R3", data |-> [title |-> "T3", tags |-> <<>>]],
      [key |-> "R4", data |-> [title |-> "T1",
                               tags |-> <<TagObj(mining), TagObj(Mining), TagObj(Katoomba)>>]],
      [key |-> "R2", data |-> [title |-> "T2", tags |-> <<TagObj(Katoomba), TagObj(mining)>>]],
      [key |-> "R5", data |-> [title |-> "T5", tags |-> <<TagObj(Mining), TagObj(Mining)>>]],
      [key |-> "R6", data |-> [title |-> "T6", tags |-> <<TagObj(EmptyName), TagObj(mining)>>]],
      [key |-> "R7", data |-> [tags |-> <<TagObj(Katoomba), [type |-> 1]>>]],
      [key |-> "R8", data |-> [title |-> "T8"]] }

\* tag names with characters that JSON writes as escapes, or that look like
\* escapes: backslash followed by n; a newline; a quoted word; control
\* characters, a slash, DEL and characters outside ASCII
BackslashN == <<92, 110>>

Newline == <<10>>

Quoted == <<34, 97, 34>>

BackslashU == <<92, 117, 48, 48, 52, 49>>

Unusual == <<1, 9, 31, 47, 127, 233, 128512>>

\* records carrying those tags
EscapeRecords ==
    { [key |-> "R1", data |-> [title |-> "T1", tags |-> <<TagObj(BackslashN), TagObj(Newline)>>]],
      [key |-> "R2", data |-> [title |-> "T2", tags |-> <<TagObj(Quoted), TagObj(Newline)>>]],
      [key |-> "R3", data |-> [title |-> "T3", tags |-> <<TagObj(Unusual), TagObj(Mining)>>]],
      [key |-> "R4", data |-> [title |-> "T4"]],
      [key |-> "R5", data |-> [tags |-> <<TagObj(EmptyName), TagObj(BackslashU),
                                          TagObj(BackslashN)>>]] }

RECURSIVE SeqsUpTo(_, _)
SeqsUpTo(S, n) ==
    IF n = 0 THEN {<<>>}
    ELSE LET shorter == SeqsUpTo(S, n - 1)
         IN  shorter \cup {Append(q, x) : q \in {r \in shorter : Len(r) = n - 1}, x \in S}

ItemCollections == SeqsUpTo(SourceRecords, MaxItems)

EscapeCollections == SeqsUpTo(EscapeRecords, MaxItems)

\* the tag tables a raw_tags.json left by an earlier stage-1 run may hold
\* applied to record R1 only
AppliedOnce == [count |-> 1, items |-> <<"R1">>, item_titles |-> <<"T1">>]

\* applied to records R1 and R2
AppliedTwice == [count |-> 2, items |-> <<"R1", "R2">>, item_titles |-> <<"T1", "T2">>]

AnalysisEntries ==
    { [key |-> tide, val |-> AppliedOnce],
      [key |-> diet, val |-> AppliedTwice],
      [key |-> Mine, val |-> AppliedOnce],
      [key |-> mine, val |-> AppliedTwice],
      [key |-> mines, val |-> AppliedOnce],
      [key |-> coal_mine, val |-> AppliedOnce],
      [key |-> mine_coal, val |-> AppliedTwice] }

DistinctKeys(d) == \A i, j \in 1..Len(d) : d[i].key = d[j].key => i = j

TagTables == {d \in SeqsUpTo(AnalysisEntries, MaxTags) : DistinctKeys(d)}

Thresholds == {0, 50, DefaultThreshold, 101}

(***************************************************************************)
(* 01_extract_tags.py: extract_tags_from_items                             *)
(***************************************************************************)
NewTagEntry == [count |-> 0, items |-> <<>>, item_titles |-> <<>>]

\* tag_data[tag_name] of the defaultdict: the entry, created on first access
TagEntry(td, tag_name) == IF DictHas(td, tag_name) THEN DictGet(td, tag_name) ELSE NewTagEntry

\* variant: an item already listed for the tag is counted but not listed again
ExtractTag_SkipRepeatedItem(acc, item_id, item_title, tag_obj) ==
    LET tag_name == Get(tag_obj, "tag", EmptyName)
        e == TagEntry(acc.tag_data, tag_name)
        seen == item_id \in Range(e.items)
    IN  IF tag_name # EmptyName
        THEN [acc EXCEPT
                !.tag_data = DictPut(acc.tag_data, tag_name,
                                 [count |-> e.count + 1,
                                  items |-> IF seen THEN e.items ELSE Append(e.items, item_id),
                                  item_titles |-> IF seen THEN e.item_titles
                                                  ELSE Append(e.item_titles, item_title)]),
                !.total_tag_applications = acc.total_tag_applications + 1]
        ELSE acc

\* variant: without the test   if tag_name
ExtractTag_KeepsEmptyName(acc, item_id, item_title, tag_obj) ==
    LET tag_name == Get(tag_obj, "tag", EmptyName)
        e == TagEntry(acc.tag_data, tag_name)
    IN  [acc EXCEPT
            !.tag_data = DictPut(acc.tag_data, tag_name,
                             [count |-> e.count + 1,
                              items |-> Append(e.items, item_id),
                              item_titles |-> Append(e.item_titles, item_title)]),
            !.total_tag_applications = acc.total_tag_applications + 1]

\* the body of   for tag_obj in tags
ExtractTag(acc, item_id, item_title, tag_obj) ==
    LET tag_name == Get(tag_obj, "tag", EmptyName)
        e == TagEntry(acc.tag_data, tag_name)
    IN  IF tag_name # EmptyName
        THEN [acc EXCEPT
                !.tag_data = DictPut(acc.tag_data, tag_name,
                                 [count |-> e.count + 1,
                                  items |-> Append(e.items, item_id),
                                  item_titles |-> Append(e.item_titles, item_title)]),
                !.total_tag_applications = acc.total_tag_applications + 1]
        ELSE acc

RECURSIVE ExtractTagsOfItem(_, _, _, _)
ExtractTagsOfItem(acc, item_id, item_title, tags) ==
    IF tags = <<>> THEN acc
    ELSE ExtractTagsOfItem(ExtractTag(acc, item_id, item_title, Head(tags)),
                           item_id, item_title, Tail(tags))

\* variant: the tag count of every record, tagged or not, enters tags_per_item
ExtractItem_AveragesAllItems(acc, item) ==
    LET item_id == item.key
        item_title == Get(item.data, "title", NoTitle)
        tags == Get(item.data, "tags", <<>>)
        counted == [acc EXCEPT !.tags_per_item = Append(acc.tags_per_item, Len(tags))]
    IN  IF tags # <<>>
        THEN ExtractTagsOfItem(
                 [counted EXCEPT !.items_with_tags = acc.items_with_tags + 1],
                 item_id, item_title, tags)
        ELSE [counted EXCEPT !.items_without_tags = acc.items_without_tags + 1]

\* the body of   for item in items
ExtractItem(acc, item) ==
    LET item_id == item.key
        item_title == Get(item.data, "title", NoTitle)
        tags == Get(item.data, "tags", <<>>)
    IN  IF tags # <<>>
        THEN ExtractTagsOfItem(
                 [acc EXCEPT !.items_with_tags = acc.items_with_tags + 1,
                             !.tags_per_item = Append(acc.tags_per_item, Len(tags))],
                 item_id, item_title, tags)
        ELSE [acc EXCEPT !.items_without_tags = acc.items_without_tags + 1]

RECURSIVE ExtractLoop(_, _)
ExtractLoop(acc, its) ==
    IF its = <<>> THEN acc ELSE ExtractLoop(ExtractItem(acc, Head(its)), Tail(its))

ExtractAcc0 ==
    [tag_data |-> <<>>, items_with_tags |-> 0, items_without_tags |-> 0,
     total_tag_applications |-> 0, tags_per_item |-> <<>>]

AvgTagsPerItem(tags_per_item) ==
    IF tags_per_item # <<>> THEN TrueDiv(SumSeq(tags_per_item), Len(tags_per_item)) ELSE Zero

MaxTagsPerItem(tags_per_item) ==
    IF tags_per_item # <<>> THEN SetMax(Range(tags_per_item)) ELSE 0

MinTagsPerItem(tags_per_item) ==
    IF tags_per_item # <<>> THEN SetMin(Range(tags_per_item)) ELSE 0

\* returns (tag_data, stats)
extract_tags_from_items(its) ==
    LET acc == ExtractLoop(ExtractAcc0, its)
    IN  [tag_data |-> acc.tag_data,
         stats |-> [total_items |-> Len(its),
                    items_with_tags |-> acc.items_with_tags,
                    items_without_tags |-> acc.items_without_tags,
                    unique_tags |-> Len(acc.tag_data),
                    total_tag_applications |-> acc.total_tag_applications,
                    avg_tags_per_item |-> AvgTagsPerItem(acc.tags_per_item),
                    max_tags_per_item |-> MaxTagsPerItem(acc.tags_per_item),
                    min_tags_per_item |-> MinTagsPerItem(acc.tags_per_item)]]

(***************************************************************************)
(* 01_extract_tags.py: save_raw_tags; 02_analyze_tags.py: load_tag_data    *)
(***************************************************************************)
\* the JSON document json.dump writes (generated_at and zotero_group_id are
\* not read back by any stage)
RawTagsDocument(td, st) == [metadata |-> [statistics |-> st], tags |-> td]

(***************************************************************************)
(* The json module, as far as the hand-off uses it.  A JSON text is kept   *)
(* as its values: objects with their members in written order, arrays,     *)
(* strings as the characters between the quotes, numbers as their digits.  *)
(* The white space of indent=2 is left out.  Tag names are written         *)
(* character by character; item keys, item titles and field names are      *)
(* strings of the model without a character that JSON escapes.             *)
(***************************************************************************)
\* the hexadecimal digit (lower case) of n \in 0..15
HexDigit(n) == IF n < 10 THEN 48 + n ELSE 87 + n

\* variant: the backslash is written as it is
EscapeChar_BackslashAsIs(c) ==
    IF c = 34 THEN <<92, 34>>
    ELSE IF c = 10 THEN <<92, 110>>
    ELSE IF c = 13 THEN <<92, 114>>
    ELSE IF c = 9 THEN <<92, 116>>
    ELSE IF c = 8 THEN <<92, 98>>
    ELSE IF c = 12 THEN <<92, 102>>
    ELSE IF c < 32 THEN <<92, 117, 48, 48, HexDigit(c \div 16), HexDigit(c % 16)>>
    ELSE <<c>>

\* json.encoder with ensure_ascii=False: quote, backslash and the control
\* characters are escaped, every other character is written as it is
EscapeChar(c) ==
    IF c = 34 THEN <<92, 34>>
    ELSE IF c = 92 THEN <<92, 92>>
    ELSE IF c = 10 THEN <<92, 110>>
    ELSE IF c = 13 THEN <<92, 114>>
    ELSE IF c = 9 THEN <<92, 116>>
    ELSE IF c = 8 THEN <<92, 98>>
    ELSE IF c = 12 THEN <<92, 102>>
    ELSE IF c < 32 THEN <<92, 117, 48, 48, HexDigit(c \div 16), HexDigit(c % 16)>>
    ELSE <<c>>

RECURSIVE Escape(_)
Escape(chars) ==
    IF chars = <<>> THEN <<>> ELSE EscapeChar(Head(chars)) \o Escape(Tail(chars))

\* the value of a hexadecimal digit, upper or lower case
HexValue(c) == IF c <= 57 THEN c - 48 ELSE IF c <= 70 THEN c - 55 ELSE c - 87

\* the character a backslash escape stands for; esc is the text after the
\* backslash
Unescaped(esc) ==
    IF esc[1] = 98 THEN 8
    ELSE IF esc[1] = 102 THEN 12
    ELSE IF esc[1] = 110 THEN 10
    ELSE IF esc[1] = 114 THEN 13
    ELSE IF esc[1] = 116 THEN 9
    ELSE IF esc[1] = 117
    THEN HexValue(esc[2]) * 4096 + HexValue(esc[3]) * 256
             + HexValue(esc[4]) * 16 + HexValue(esc[5])
    ELSE esc[1]

\* the length of the escape that begins after a backslash
EscapeLen(esc) == IF esc[1] = 117 THEN 5 ELSE 1

\* the text after a backslash is a \uXXXX escape of a high surrogate that a
\* \uXXXX escape of a low surrogate follows
IsSurrogatePair(esc) ==
    /\ Len(esc) >= 11
    /\ esc[1] = 117
    /\ Unescaped(esc) >= 55296 /\ Unescaped(esc) <= 56319
    /\ esc[6] = 92
    /\ esc[7] = 117
    /\ Unescaped(SubSeq(esc, 7, 11)) >= 56320 /\ Unescaped(SubSeq(esc, 7, 11)) <= 57343

\* the character the two escapes of a surrogate pair stand for
JoinSurrogates(hi, lo) == 65536 + (hi - 55296) * 1024 + (lo - 56320)

\* json.decoder scanstring: the characters a written string stands for; the
\* two escapes of a surrogate pair are read as one character
RECURSIVE Unescape(_)
Unescape(text) ==
    IF text = <<>> THEN <<>>
    ELSE IF Head(text) # 92 THEN <<Head(text)>> \o Unescape(Tail(text))
    ELSE IF IsSurrogatePair(Tail(text))
    THEN <<JoinSurrogates(Unescaped(Tail(text)), Unescaped(SubSeq(text, 8, 12)))>>
             \o Unescape(SubSeq(text, 13, Len(text)))
    ELSE <<Unescaped(Tail(text))>>
             \o Unescape(SubSeq(text, 2 + EscapeLen(Tail(text)), Len(text)))

\* int.__repr__ of a natural number, as characters
RECURSIVE Digits(_)
Digits(n) == IF n < 10 THEN <<48 + n>> ELSE Digits(n \div 10) \o <<48 + (n % 10)>>

\* int(text)
RECURSIVE ParseInt(_)
ParseInt(text) ==
    IF Len(text) = 1 THEN text[1] - 48
    ELSE 10 * ParseInt(SubSeq(text, 1, Len(text) - 1)) + (text[Len(text)] - 48)

JsonInt(n) == [type |-> "int", text |-> Digits(n)]

\* float.__repr__ writes the shortest decimal that float() reads back as the
\* same float; the token stands for that decimal text
JsonFloat(x) == [type |-> "float", repr |-> x]

\* the encoder chooses the token by the type of the number
JsonNumber(x) == IF IsInt(x) THEN JsonInt(x.int) ELSE JsonFloat(x)

\* the decoder returns an int for an integer token and a float otherwise
LoadNumber(token) ==
    IF token.type = "int" THEN [int |-> ParseInt(token.text)] ELSE token.repr

\* a string of the model without a character that JSON escapes
JsonText(str) == [type |-> "string", text |-> str]

JsonString(chars) == [type |-> "string", chars |-> Escape(chars)]

JsonArray(elems) == [type |-> "array", elems |-> elems]

JsonObject(members) == [type |-> "object", members |-> members]

JsonMember(name, value) == [name |-> name, value |-> value]

JsonTexts(strs) == JsonArray([k \in 1..Len(strs) |-> JsonText(strs[k])])

\* one value of the tag table: {'count': ..., 'items': [...], 'item_titles': [...]}
DumpTagEntry(val) ==
    JsonObject(<<JsonMember(JsonText("count"), JsonInt(val.count)),
                 JsonMember(JsonText("items"), JsonTexts(val.items)),
                 JsonMember(JsonText("item_titles"), JsonTexts(val.item_titles))>>)

DumpTags(td) ==
    JsonObject([k \in 1..Len(td) |->
                   JsonMember(JsonString(td[k].key), DumpTagEntry(td[k].val))])

DumpStatistics(st) ==
    JsonObject(<<JsonMember(JsonText("total_items"), JsonInt(st.total_items)),
                 JsonMember(JsonText("items_with_tags"), JsonInt(st.items_with_tags)),
                 JsonMember(JsonText("items_without_tags"), JsonInt(st.items_without_tags)),
                 JsonMember(JsonText("unique_tags"), JsonInt(st.unique_tags)),
                 JsonMember(JsonText("total_tag_applications"),
                            JsonInt(st.total_tag_applications)),
                 JsonMember(JsonText("avg_tags_per_item"), JsonNumber(st.avg_tags_per_item)),
                 JsonMember(JsonText("max_tags_per_item"), JsonInt(st.max_tags_per_item)),
                 JsonMember(JsonText("min_tags_per_item"), JsonInt(st.min_tags_per_item))>>)

\* json.dump(data, f, indent=2, ensure_ascii=False)
json_dump(data) ==
    JsonObject(<<JsonMember(JsonText("metadata"),
                            JsonObject(<<JsonMember(JsonText("statistics"),
                                                    DumpStatistics(data.metadata.statistics))>>)),
                 JsonMember(JsonText("tags"), DumpTags(data.tags))>>)

\* obj[name] after json.load: of members with the same name the last counts
Member(obj, name) ==
    obj.members[CHOOSE k \in 1..Len(obj.members) :
                    /\ obj.members[k].name = JsonText(name)
                    /\ \A j \in (k + 1)..Len(obj.members) :
                          obj.members[j].name # JsonText(name)].value

LoadTexts(arr) == [k \in 1..Len(arr.elems) |-> arr.elems[k].text]

LoadTagEntry(obj) ==
    [count |-> ParseInt(Member(obj, "count").text),
     items |-> LoadTexts(Member(obj, "items")),
     item_titles |-> LoadTexts(Member(obj, "item_titles"))]

\* the dict of the members read so far, with the next members added
RECURSIVE LoadTagMembers(_, _)
LoadTagMembers(d, members) ==
    IF members = <<>> THEN d
    ELSE LoadTagMembers(DictPut(d, Unescape(Head(members).name.chars),
                                LoadTagEntry(Head(members).value)),
                        Tail(members))

LoadTags(obj) == LoadTagMembers(<<>>, obj.members)

LoadStatistics(obj) ==
    [total_items |-> ParseInt(Member(obj, "total_items").text),
     items_with_tags |-> ParseInt(Member(obj, "items_with_tags").text),
     items_without_tags |-> ParseInt(Member(obj, "items_without_tags").text),
     unique_tags |-> ParseInt(Member(obj, "unique_tags").text),
     total_tag_applications |-> ParseInt(Member(obj, "total_tag_applications").text),
     avg_tags_per_item |-> LoadNumber(Member(obj, "avg_tags_per_item")),
     max_tags_per_item |-> ParseInt(Member(obj, "max_tags_per_item").text),
     min_tags_per_item |-> ParseInt(Member(obj, "min_tags_per_item").text)]

\* json.load(f)
json_load(text) ==
    [metadata |-> [statistics |-> LoadStatistics(Member(Member(text, "metadata"),
                                                        "statistics"))],
     tags |-> LoadTags(Member(text, "tags"))]

\* the file save_raw_tags writes
RawTagsFile(td, st) == json_dump(RawTagsDocument(td, st))

\* returns (data['tags'], data['metadata']['statistics'])
TagsAndStatistics(data) == [tags |-> data.tags, stats |-> data.metadata.statistics]

load_tag_data(text) == TagsAndStatistics(json_load(text))

(***************************************************************************)
(* 02_analyze_tags.py: find_similar_tags                                   *)
(***************************************************************************)
Max3(a, b, c) == SetMax({a, b, c})

\* variant: > in place of >=, a tie goes to tag2
SuggestedMerge_StrictGreater(tags, tag1, tag2) ==
    IF DictGet(tags, tag1).count > DictGet(tags, tag2).count THEN tag1 ELSE tag2

SuggestedMerge(tags, tag1, tag2) ==
    IF DictGet(tags, tag1).count >= DictGet(tags, tag2).count THEN tag1 ELSE tag2

\* the dict appended for one pair
PairDict(tags, tag1, tag2, ratio, partial, token_sort) ==
    [tag1 |-> tag1, tag2 |-> tag2,
     count1 |-> DictGet(tags, tag1).count,
     count2 |-> DictGet(tags, tag2).count,
     similarity |-> Max3(ratio, partial, token_sort),
     ratio |-> ratio, partial |-> partial, token_sort |-> token_sort,
     suggested_merge |-> SuggestedMerge(tags, tag1, tag2)]

SimilarPair(tags, tag1, tag2) ==
    PairDict(tags, tag1, tag2,
             fuzz_ratio(lower(tag1), lower(tag2)),
             fuzz_partial_ratio(lower(tag1), lower(tag2)),
             fuzz_token_sort_ratio(lower(tag1), lower(tag2)))

\* variant: > threshold in place of >= threshold
AppendIfSimilar_AboveThreshold(pair, threshold) ==
    IF pair.similarity > threshold THEN <<pair>> ELSE <<>>

\* if max_similarity >= threshold: similar_pairs.append(...)
AppendIfSimilar(pair, threshold) ==
    IF pair.similarity >= threshold THEN <<pair>> ELSE <<>>

\* for tag2 in tag_list[i+1:]
RECURSIVE SimilarInner(_, _, _, _)
SimilarInner(tags, threshold, tag1, rest) ==
    IF rest = <<>> THEN <<>>
    ELSE AppendIfSimilar(SimilarPair(tags, tag1, Head(rest)), threshold)
             \o SimilarInner(tags, threshold, tag1, Tail(rest))

\* for i, tag1 in enumerate(tag_list)
RECURSIVE SimilarOuter(_, _, _)
SimilarOuter(tags, threshold, tag_list) ==
    IF tag_list = <<>> THEN <<>>
    ELSE SimilarInner(tags, threshold, Head(tag_list), Tail(tag_list))
             \o SimilarOuter(tags, threshold, Tail(tag_list))

find_similar_tags(tags, threshold) == SimilarOuter(tags, threshold, DictKeys(tags))

(***************************************************************************)
(* 02_analyze_tags.py: detect_hierarchies                                  *)
(***************************************************************************)
\* variant: without the test tag_lower != other_lower
RECURSIVE HierarchyInner_NotStrict(_, _, _)
HierarchyInner_NotStrict(tags, tag, others) ==
    IF others = <<>> THEN <<>>
    ELSE LET other_tag == Head(others)
             tag_lower == lower(tag)
             other_lower == lower(other_tag)
         IN  (IF tag = other_tag THEN <<>>
              ELSE IF IsSubstring(tag_lower, other_lower)
              THEN <<[broader_term |-> other_tag,
                      narrower_term |-> tag,
                      broader_count |-> DictGet(tags, other_tag).count,
                      narrower_count |-> DictGet(tags, tag).count,
                      relationship |-> "substring"]>>
              ELSE <<>>)
                 \o HierarchyInner_NotStrict(tags, tag, Tail(others))

\* for other_tag in tag_list
RECURSIVE HierarchyInner(_, _, _)
HierarchyInner(tags, tag, others) ==
    IF others = <<>> THEN <<>>
    ELSE LET other_tag == Head(others)
             tag_lower == lower(tag)
             other_lower == lower(other_tag)
         IN  (IF tag = other_tag THEN <<>>
              ELSE IF IsSubstring(tag_lower, other_lower) /\ tag_lower # other_lower
              THEN <<[broader_term |-> other_tag,
                      narrower_term |-> tag,
                      broader_count |-> DictGet(tags, other_tag).count,
                      narrower_count |-> DictGet(tags, tag).count,
                      relationship |-> "substring"]>>
              ELSE <<>>)
                 \o HierarchyInner(tags, tag, Tail(others))

RECURSIVE HierarchyOuter(_, _, _)

\* variant: each tag is only checked against the tags after it, as the
\* similarity loop does
RECURSIVE HierarchyOuter_OneDirection(_, _, _)
HierarchyOuter_OneDirection(tags, rest, tag_list) ==
    IF rest = <<>> THEN <<>>
    ELSE HierarchyInner(tags, Head(rest), Tail(rest))
             \o HierarchyOuter_OneDirection(tags, Tail(rest), tag_list)

\* for tag in tag_list
HierarchyOuter(tags, rest, tag_list) ==
    IF rest = <<>> THEN <<>>
    ELSE HierarchyInner(tags, Head(rest), tag_list)
             \o HierarchyOuter(tags, Tail(rest), tag_list)

detect_hierarchies(tags) == HierarchyOuter(tags, DictKeys(tags), DictKeys(tags))

(***************************************************************************)
(* 02_analyze_tags.py: calculate_cooccurrence                              *)
(***************************************************************************)
\* item_tags[item_id].add(tag_name) on the defaultdict(set)
RECURSIVE IndexTag(_, _, _)
IndexTag(idx, tag_name, item_ids) ==
    IF item_ids = <<>> THEN idx
    ELSE LET item_id == Head(item_ids)
             old == IF DictHas(idx, item_id) THEN DictGet(idx, item_id) ELSE {}
         IN  IndexTag(DictPut(idx, item_id, old \cup {tag_name}), tag_name, Tail(item_ids))

\* Phase 1: for tag_name, tag_info in tags.items()
RECURSIVE BuildItemTags(_, _)
BuildItemTags(idx, entries) ==
    IF entries = <<>> THEN idx
    ELSE BuildItemTags(IndexTag(idx, Head(entries).key, Head(entries).val.items),
                       Tail(entries))

\* itertools.combinations(seq, 2)
RECURSIVE Combinations2(_)
Combinations2(q) ==
    IF Len(q) < 2 THEN <<>>
    ELSE [k \in 1..(Len(q) - 1) |-> <<q[1], q[k + 1]>>] \o Combinations2(Tail(q))

\* variant: += 2 in place of += 1
Increment_ByTwo(co, t1, t2) ==
    LET row == IF DictHas(co, t1) THEN DictGet(co, t1) ELSE <<>>
        old == IF DictHas(row, t2) THEN DictGet(row, t2) ELSE 0
    IN  DictPut(co, t1, DictPut(row, t2, old + 2))

\* cooccurrence[t1][t2] += 1 on the nested defaultdict
Increment(co, t1, t2) ==
    LET row == IF DictHas(co, t1) THEN DictGet(co, t1) ELSE <<>>
        old == IF DictHas(row, t2) THEN DictGet(row, t2) ELSE 0
    IN  DictPut(co, t1, DictPut(row, t2, old + 1))

\* variant: only cooccurrence[tag1][tag2] is incremented
IncrementBoth_OneDirection(co, pair) == Increment(co, pair[1], pair[2])

\* the body of   for tag1, tag2 in combinations(sorted(item_tag_set), 2)
IncrementBoth(co, pair) == Increment(Increment(co, pair[1], pair[2]), pair[2], pair[1])

RECURSIVE CountPairs(_, _)
CountPairs(co, pairs) ==
    IF pairs = <<>> THEN co ELSE CountPairs(IncrementBoth(co, Head(pairs)), Tail(pairs))

\* variant: > 2 in place of >= 2
ItemPairs_MoreThanTwo(item_tag_set) ==
    IF Cardinality(item_tag_set) > 2 THEN Combinations2(SortedStrs(item_tag_set)) ELSE <<>>

\* the pairs one item contributes (Phase 2, body of the loop over item_tags)
ItemPairs(item_tag_set) ==
    IF Cardinality(item_tag_set) >= 2 THEN Combinations2(SortedStrs(item_tag_set)) ELSE <<>>

\* cooccurrence[a][b] as a reader of the counter sees it (0 when never set)
CoCount(co, a, b) ==
    IF DictHas(co, a) /\ DictHas(DictGet(co, a), b) THEN DictGet(DictGet(co, a), b) ELSE 0

\* variant: the pair is not put in canonical order
SortedPair_AsGiven(tag1, tag2) == <<tag1, tag2>>

\* tuple(sorted([tag1, tag2]))
SortedPair(tag1, tag2) == IF StrLess(tag2, tag1) THEN <<tag2, tag1>> ELSE <<tag1, tag2>>

\* Phase 3, inner loop: for tag2, count in cooccurrence[tag1].items()
RECURSIVE MaterializeRow(_, _, _, _)
MaterializeRow(acc, tags, tag1, row) ==
    IF row = <<>> THEN acc
    ELSE LET tag2 == Head(row).key
             pair == SortedPair(tag1, tag2)
         IN  MaterializeRow(
                 IF pair \notin acc.processed
                 THEN [list |-> Append(acc.list,
                                    [tag1 |-> tag1, tag2 |-> tag2, count |-> Head(row).val,
                                     tag1_total |-> DictGet(tags, tag1).count,
                                     tag2_total |-> DictGet(tags, tag2).count]),
                       processed |-> acc.processed \cup {pair}]
                 ELSE acc,
                 tags, tag1, Tail(row))

\* Phase 3, outer loop: for tag1 in cooccurrence
RECURSIVE Materialize(_, _, _)
Materialize(acc, tags, co) ==
    IF co = <<>> THEN acc
    ELSE Materialize(MaterializeRow(acc, tags, Head(co).key, Head(co).val), tags, Tail(co))

\* list.sort(key=..., reverse=True) and sorted(..., reverse=True):
\* descending by key, elements of equal key keep their order
SortedDescBy(q, key) ==
    [r \in 1..Len(q) |->
        q[CHOOSE i \in 1..Len(q) :
            Cardinality({j \in 1..Len(q) : key[j] > key[i] \/ (key[j] = key[i] /\ j < i)})
                = r - 1]]

\* DataFrame.sort_values(column, ascending=False) with the default
\* kind='quicksort', which is not stable: the rows come out descending by key,
\* and the order of rows of equal key depends on the numpy build.
\* DescOrders is the set of the orders of the row numbers in S that are
\* descending by key: any row of the greatest key first, then the others.
RECURSIVE DescOrders(_, _)
DescOrders(key, S) ==
    IF S = {} THEN {<<>>}
    ELSE UNION {{<<i>> \o p : p \in DescOrders(key, S \ {i})} :
                   i \in {t \in S : \A o \in S : key[o] <= key[t]}}

\* the frames sort_values can return for the rows q
sort_values(q, key) == {[r \in 1..Len(q) |-> q[p[r]]] : p \in DescOrders(key, 1..Len(q))}

CooccurrenceList(tags, co) ==
    LET l == Materialize([list |-> <<>>, processed |-> {}], tags, co).list
    IN  SortedDescBy(l, [k \in 1..Len(l) |-> l[k].count])

\* q[:n]
Take(q, n) == SubSeq(q, 1, IF Len(q) < n THEN Len(q) ELSE n)

(***************************************************************************)
(* 01_extract_tags.py: create_frequency_table, generate_summary_report     *)
(***************************************************************************)
\* pd.DataFrame(data) of an empty list has no 'count' column, and
\* sort_values('count') raises KeyError
FrequencyTableFails(td) == td = <<>>

\* the rows of tag_frequency.csv (the percentage column aside)
FrequencyRows(td) == [k \in 1..Len(td) |-> [tag |-> td[k].key, count |-> td[k].val.count]]

\* the frames create_frequency_table can return: one per order of the tags
\* of equal count
create_frequency_table(td) ==
    sort_values(FrequencyRows(td), [k \in 1..Len(td) |-> td[k].val.count])

\* stats['items_with_tags'] / stats['total_items'] raises ZeroDivisionError
SummaryReportFails(st) == st.total_items = 0

\* [tag for tag, info in tag_data.items() if info['count'] == 1]
SingletonTags(td) == DictKeys(SelectSeq(td, LAMBDA e : e.val.count = 1))

\* the numbers and rows of tag_summary.md
SummaryReport(st, td, frequency_df) ==
    [statistics |-> st,
     top_tags |-> Take(frequency_df, TopTagRows),
     singleton_count |-> Len(SingletonTags(td)),
     singleton_examples |-> Take(SingletonTags(td), SingletonExamples),
     untagged |-> st.items_without_tags]

(***************************************************************************)
(* 02_analyze_tags.py: save_similar_tags, visualize_cooccurrence,          *)
(* generate_analysis_report                                                *)
(***************************************************************************)
\* the rows of similar_tags.csv: df.sort_values('similarity', ascending=False),
\* one frame per order of the pairs of equal similarity
SimilarTagsCsv(similar_pairs) ==
    sort_values(similar_pairs, [k \in 1..Len(similar_pairs) |-> similar_pairs[k].similarity])

\* the names of the top_n tags by count
TopTagNames(tags, top_n) ==
    Range(DictKeys(Take(SortedDescBy(tags, [k \in 1..Len(tags) |-> tags[k].val.count]), top_n)))

\* the edges added to the graph G
GraphEdges(cooccurrence_list, tags, top_n) ==
    {k \in 1..Len(cooccurrence_list) :
        /\ cooccurrence_list[k].tag1 \in TopTagNames(tags, top_n)
        /\ cooccurrence_list[k].tag2 \in TopTagNames(tags, top_n)
        /\ cooccurrence_list[k].count >= MinEdgeCount}

\* one row of the 'Top 20 Most Similar Tag Pairs' table
SimilarRow(pair) ==
    [tag1 |-> pair.tag1, tag2 |-> pair.tag2, similarity |-> pair.similarity,
     count1 |-> pair.count1, count2 |-> pair.count2,
     suggested_merge |-> pair.suggested_merge]

\* the tables of reports/tag_analysis.md
AnalysisReport(similar_pairs, hierarchies, cooccurrence_list) ==
    [similar_count |-> Len(similar_pairs),
     similar_rows |-> [k \in 1..Len(Take(similar_pairs, TopPairs)) |->
                          SimilarRow(similar_pairs[k])],
     hierarchy_count |-> Len(hierarchies),
     hierarchy_rows |-> Take(hierarchies, TopHierarchies),
     cooccurrence_rows |-> Take(cooccurrence_list, TopCooccurrences)]

(***************************************************************************)
(* 02_analyze_tags.py: analyze_data_quality, generate_quality_report       *)
(***************************************************************************)
Fire == <<70, 105, 114, 101>>

FIRE == <<70, 73, 82, 69>>

fire == <<102, 105, 114, 101>>

Flood == <<70, 108, 111, 111, 100>>

\* library items as zot.items() returns them: 'meta' and its 'numChildren',
\* 'title', 'itemType' and 'date' may each be absent
QualityShelf ==
    << [key |-> "Q1", meta |-> [numChildren |-> 2],
       data |-> [title |-> Fire, itemType |-> "newspaperArticle", date |-> "1890"]],
      [key |-> "Q2", meta |-> [numChildren |-> 1],
       data |-> [title |-> FIRE, itemType |-> "newspaperArticle", date |-> "1891"]],
      [key |-> "Q3", meta |-> [numChildren |-> 0],
       data |-> [title |-> fire, itemType |-> "note"]],
      [key |-> "Q4",
       data |-> [title |-> Flood, itemType |-> "attachment", date |-> ""]],
      [key |-> "Q5", meta |-> [numChildren |-> 3],
       data |-> [itemType |-> "newspaperArticle"]],
      [key |-> "Q6", meta |-> [version |-> 5],
       data |-> [title |-> Flood]] >>

QualityRecords == Range(QualityShelf)

DistinctItemKeys(its) == \A i, j \in 1..Len(its) : its[i].key = its[j].key => i = j

QualityCollections == {its \in SeqsUpTo(QualityRecords, MaxItems) : DistinctItemKeys(its)}

\* what the fetch loop can return: a record is there twice when the library
\* grew between two requests
FetchedCollections == SeqsUpTo(QualityRecords, MaxItems)

\* the libraries a whole run of 02_analyze_tags.py is followed on: up to
\* MaxItems of the records, in the order of the shelf
RunLibraries ==
    {[k \in 1..Len(f) |-> QualityShelf[f[k]]] :
        f \in {g \in SeqsUpTo(1..Len(QualityShelf), MaxItems) :
                  \A i, j \in 1..Len(g) : i < j => g[i] < g[j]}}

NonPrimaryTypes == {"note", "annotation", "attachment"}

\* '[No Title]' as text
NoTitleText == <<91, 78, 111, 32, 84, 105, 116, 108, 101, 93>>

\* item_data.get('title', '[No Title]')
TitleOf(item) == Get(item.data, "title", NoTitleText)

\* item_data.get('itemType', 'unknown')
ItemTypeOf(item) == Get(item.data, "itemType", "unknown")

\* item.get('meta', {}).get('numChildren', 0)
NumChildren(item) == Get(Get(item, "meta", <<>>), "numChildren", 0)

\* the dict appended to title_map
TitleEntry(item) ==
    [key |-> item.key, title |-> TitleOf(item), itemType |-> ItemTypeOf(item),
     date |-> Get(item.data, "date", "")]

\* d[key].append(entry) on a defaultdict(list)
AppendTo(d, key, entry) ==
    DictPut(d, key, Append(IF DictHas(d, key) THEN DictGet(d, key) ELSE <<>>, entry))

\* variant: the title is not lowercased
TitleMapAdd_CaseSensitive(tm, item) == AppendTo(tm, TitleOf(item), TitleEntry(item))

\* Check 1: title_map[title.lower()].append({...})
TitleMapAdd(tm, item) == AppendTo(tm, lower(TitleOf(item)), TitleEntry(item))

\* Check 2: non-primary source detection
CheckNonPrimary(iss, item) ==
    IF ItemTypeOf(item) \in NonPrimaryTypes
    THEN [iss EXCEPT !.non_primary_sources =
              Append(@, [key |-> item.key, title |-> TitleOf(item),
                         itemType |-> ItemTypeOf(item)])]
    ELSE iss

\* variant: >= 1 in place of > 1
CheckAttachments_OneIsMultiple(iss, item) ==
    IF NumChildren(item) >= 1
    THEN [iss EXCEPT !.multiple_attachments =
              Append(@, [key |-> item.key, title |-> TitleOf(item),
                         num_attachments |-> NumChildren(item)])]
    ELSE IF NumChildren(item) = 0
    THEN [iss EXCEPT !.no_attachments =
              Append(@, [key |-> item.key, title |-> TitleOf(item)])]
    ELSE iss

\* Check 3 & 4: attachment analysis
CheckAttachments(iss, item) ==
    IF NumChildren(item) > 1
    THEN [iss EXCEPT !.multiple_attachments =
              Append(@, [key |-> item.key, title |-> TitleOf(item),
                         num_attachments |-> NumChildren(item)])]
    ELSE IF NumChildren(item) = 0
    THEN [iss EXCEPT !.no_attachments =
              Append(@, [key |-> item.key, title |-> TitleOf(item)])]
    ELSE iss

\* post-processing: the lists of title_map longer than 1, concatenated
RECURSIVE DuplicatesOf(_)
DuplicatesOf(tm) ==
    IF tm = <<>> THEN <<>>
    ELSE (IF Len(Head(tm).val) > 1 THEN Head(tm).val ELSE <<>>) \o DuplicatesOf(Tail(tm))

\* generate_quality_report: dup_groups[item['title'].lower()].append(item)
RECURSIVE DupGroups(_, _)
DupGroups(groups, dups) ==
    IF dups = <<>> THEN groups
    ELSE DupGroups(AppendTo(groups, lower(Head(dups).title), Head(dups)), Tail(dups))

\* the counts and lists of reports/data_quality_issues.md; the line
\* 'Duplicate title groups' is only written when there are duplicates
QualityReport(iss) ==
    [duplicates |-> Len(iss.duplicates),
     duplicate_title_groups |->
         IF iss.duplicates # <<>> THEN <<Len(DupGroups(<<>>, iss.duplicates))>> ELSE <<>>,
     groups |-> Take(DupGroups(<<>>, iss.duplicates), 10),
     non_primary_sources |-> Len(iss.non_primary_sources),
     multiple_attachments |-> Len(iss.multiple_attachments),
     no_attachments |-> Len(iss.no_attachments)]

IssueTypes ==
    {"duplicates", "non_primary_sources", "multiple_attachments", "no_attachments",
     "no_text_extraction"}

\* the CSV exports: one file per issue type that has items
QualityCsvs(iss) ==
    [name \in {"quality_" \o t \o ".csv" : t \in {u \in IssueTypes : iss[u] # <<>>}} |->
        iss[CHOOSE t \in IssueTypes : name = "quality_" \o t \o ".csv"]]

(***************************************************************************)
(* fetch_all_items and the source it pages through.                        *)
(***************************************************************************)
\* the record of the library with the given id
Record(id) == [key |-> id]

\* the library when the fetch starts: records 1..n in the order of the source
LibraryOf(n) == [k \in 1..n |-> Record(k)]

\* zot.items(start=s, limit=l): at most l records from offset s, none when
\* the offset is beyond the last record
Page(source, s, l) ==
    SubSeq(source, s + 1, IF s + l < Len(source) THEN s + l ELSE Len(source))

\* variant: a page shorter than the limit ends the loop
EndOfSource_ShortPage(batch) == Len(batch) < limit

\* if not batch: break
EndOfSource(batch) == batch = <<>>

\* variant: the next page begins with the last record of this one
NextStart_Overlap(s) == s + limit - 1

\* start += limit
NextStart(s) == s + limit

\* the source after a record was added before position pos + 1
InsertAt(source, pos, rec) ==
    SubSeq(source, 1, pos) \o <<rec>> \o SubSeq(source, pos + 1, Len(source))

\* the source after the record at position pos was removed
RemoveAt(source, pos) == SubSeq(source, 1, pos - 1) \o SubSeq(source, pos + 1, Len(source))

(***************************************************************************)
(* 03_inspect_multiple_attachments.py                                      *)
(***************************************************************************)
\* Python's None, as fetch_item_details returns it for a failed fetch
None == [none |-> TRUE]

\* the children zot.children() can return: a PDF attachment, a note and an
\* attachment of another type
PdfChild ==
    [key |-> "CPDF",
     data |-> [itemType |-> "attachment", title |-> "scan.pdf", filename |-> "scan.pdf",
               contentType |-> "application/pdf", linkMode |-> "imported_file"]]

NoteChild == [key |-> "CNOTE", data |-> [itemType |-> "note", note |-> "transcription"]]

ImageChild ==
    [key |-> "CIMG",
     data |-> [itemType |-> "attachment", title |-> "page.png", filename |-> "page.png",
               contentType |-> "image/png", linkMode |-> "imported_file"]]

ChildKinds == {PdfChild, NoteChild, ImageChild}

KindRank(child) == IF child = PdfChild THEN 1 ELSE IF child = NoteChild THEN 2 ELSE 3

\* the child lists of up to MaxChildren children, PDFs first, then notes,
\* then the other attachments
ChildLists ==
    {ch \in SeqsUpTo(ChildKinds, MaxChildren) :
        \A i, j \in 1..Len(ch) : i < j => KindRank(ch[i]) <= KindRank(ch[j])}

\* what the source answers to the two calls for one record: zot.item fails,
\* zot.children fails, or both succeed
Responses ==
    {[status |-> "item_error"], [status |-> "children_error"]}
        \cup {[status |-> "ok", children |-> ch] : ch \in ChildLists}

\* the rows of quality_multiple_attachments.csv
FlaggedRows ==
    << [key |-> "F1", title |-> "T1", num_attachments |-> 2],
       [key |-> "F2", title |-> "T2", num_attachments |-> 3],
       [key |-> "F3", title |-> "T3", num_attachments |-> 2],
       [key |-> "F4", title |-> "T4", num_attachments |-> 5] >>

\* zot.item(item_key): the record of the library with that key
LibraryItem(item_key) ==
    IF item_key = "F2"
    THEN [key |-> item_key, data |-> [itemType |-> "newspaperArticle"]]
    ELSE [key |-> item_key,
          data |-> [title |-> "T", itemType |-> "newspaperArticle", date |-> "1890",
                    publicationTitle |-> "Echo", pages |-> "3", url |-> "",
                    tags |-> <<TagObj(Mining), TagObj(Katoomba)>>]]

\* the child_info dict of one child
ChildInfo(child) ==
    [key |-> child.key,
     itemType |-> Get(child.data, "itemType", "unknown"),
     title |-> Get(child.data, "title", NoTitle),
     filename |-> Get(child.data, "filename", ""),
     contentType |-> Get(child.data, "contentType", ""),
     linkMode |-> Get(child.data, "linkMode", ""),
     note |-> IF Get(child.data, "itemType", "") = "note"
              THEN Get(child.data, "note", "") ELSE ""]

\* the item_info dict built from the two answers
ItemInfo(item_key, item, children) ==
    [key |-> item_key,
     title |-> Get(item.data, "title", NoTitle),
     itemType |-> Get(item.data, "itemType", "unknown"),
     date |-> Get(item.data, "date", ""),
     publicationTitle |-> Get(item.data, "publicationTitle", ""),
     pages |-> Get(item.data, "pages", ""),
     url |-> Get(item.data, "url", ""),
     tags |-> [k \in 1..Len(Get(item.data, "tags", <<>>)) |-> item.data.tags[k].tag],
     num_children |-> Len(children),
     children |-> [k \in 1..Len(children) |-> ChildInfo(children[k])]]

\* variant: a failed zot.children call is taken as "no children"
fetch_item_details_EmptyOnError(response, item_key) ==
    IF response.status = "item_error" THEN None
    ELSE IF response.status = "children_error"
    THEN ItemInfo(item_key, LibraryItem(item_key), <<>>)
    ELSE ItemInfo(item_key, LibraryItem(item_key), response.children)

\* fetch_item_details: None when either call raises
fetch_item_details(response, item_key) ==
    IF response.status # "ok" THEN None
    ELSE ItemInfo(item_key, LibraryItem(item_key), response.children)

num_pdfs(children) ==
    Cardinality({k \in 1..Len(children) : children[k].contentType = "application/pdf"})

num_notes(children) ==
    Cardinality({k \in 1..Len(children) : children[k].itemType = "note"})

num_attachments(children) ==
    Cardinality({k \in 1..Len(children) : children[k].itemType = "attachment"})

\* variant: rule 1 does not look at the notes and rule 4 is missing
Categorise_PdfsOnly(pdfs, notes, attachments) ==
    IF pdfs >= 2
    THEN [category |-> "multiple_pdfs", reasoning |-> <<"multiple_pdfs", pdfs>>,
          action |-> "HIGH PRIORITY - Review if these are separate articles"]
    ELSE IF pdfs >= 1 /\ notes >= 1
    THEN [category |-> "pdf_plus_notes", reasoning |-> <<"pdf_plus_notes", pdfs, notes>>,
          action |-> "LOW PRIORITY - Probably legitimate structure"]
    ELSE IF pdfs = 0 /\ notes >= 2
    THEN [category |-> "multiple_notes", reasoning |-> <<"multiple_notes", notes>>,
          action |-> "REVIEW - Check if notes should be consolidated"]
    ELSE [category |-> "uncertain", reasoning |-> <<"uncertain">>,
          action |-> "REVIEW - Manual inspection required"]

\* variant: rule 2 without the test on the notes
Categorise_PdfFirst(pdfs, notes, attachments) ==
    IF pdfs >= 2 /\ notes = 0
    THEN [category |-> "multiple_pdfs", reasoning |-> <<"multiple_pdfs", pdfs>>,
          action |-> "HIGH PRIORITY - Review if these are separate articles"]
    ELSE IF pdfs >= 1
    THEN [category |-> "pdf_plus_notes", reasoning |-> <<"pdf_plus_notes", pdfs, notes>>,
          action |-> "LOW PRIORITY - Probably legitimate structure"]
    ELSE IF pdfs = 0 /\ notes >= 2
    THEN [category |-> "multiple_notes", reasoning |-> <<"multiple_notes", notes>>,
          action |-> "REVIEW - Check if notes should be consolidated"]
    ELSE IF attachments > pdfs + notes
    THEN [category |-> "mixed_content", reasoning |-> <<"mixed_content", attachments>>,
          action |-> "REVIEW - Check attachment types and purposes"]
    ELSE [category |-> "uncertain", reasoning |-> <<"uncertain">>,
          action |-> "REVIEW - Manual inspection required"]

\* the rules, on the three counts; reasoning is the message and the counts
\* it is formatted with
Categorise(pdfs, notes, attachments) ==
    IF pdfs >= 2 /\ notes = 0
    THEN [category |-> "multiple_pdfs", reasoning |-> <<"multiple_pdfs", pdfs>>,
          action |-> "HIGH PRIORITY - Review if these are separate articles"]
    ELSE IF pdfs >= 1 /\ notes >= 1
    THEN [category |-> "pdf_plus_notes", reasoning |-> <<"pdf_plus_notes", pdfs, notes>>,
          action |-> "LOW PRIORITY - Probably legitimate structure"]
    ELSE IF pdfs = 0 /\ notes >= 2
    THEN [category |-> "multiple_notes", reasoning |-> <<"multiple_notes", notes>>,
          action |-> "REVIEW - Check if notes should be consolidated"]
    ELSE IF attachments > pdfs + notes
    THEN [category |-> "mixed_content", reasoning |-> <<"mixed_content", attachments>>,
          action |-> "REVIEW - Check attachment types and purposes"]
    ELSE [category |-> "uncertain", reasoning |-> <<"uncertain">>,
          action |-> "REVIEW - Manual inspection required"]

\* the condition of the r-th branch of the if/elif chain
RuleGuard(r, pdfs, notes, attachments) ==
    IF r = 1 THEN pdfs >= 2 /\ notes = 0
    ELSE IF r = 2 THEN pdfs >= 1 /\ notes >= 1
    ELSE IF r = 3 THEN pdfs = 0 /\ notes >= 2
    ELSE IF r = 4 THEN attachments > pdfs + notes
    ELSE TRUE

\* what the r-th branch assigns
RuleOutcome(r, pdfs, notes, attachments) ==
    IF r = 1
    THEN [category |-> "multiple_pdfs", reasoning |-> <<"multiple_pdfs", pdfs>>,
          action |-> "HIGH PRIORITY - Review if these are separate articles"]
    ELSE IF r = 2
    THEN [category |-> "pdf_plus_notes", reasoning |-> <<"pdf_plus_notes", pdfs, notes>>,
          action |-> "LOW PRIORITY - Probably legitimate structure"]
    ELSE IF r = 3
    THEN [category |-> "multiple_notes", reasoning |-> <<"multiple_notes", notes>>,
          action |-> "REVIEW - Check if notes should be consolidated"]
    ELSE IF r = 4
    THEN [category |-> "mixed_content", reasoning |-> <<"mixed_content", attachments>>,
          action |-> "REVIEW - Check attachment types and purposes"]
    ELSE [category |-> "uncertain", reasoning |-> <<"uncertain">>,
          action |-> "REVIEW - Manual inspection required"]

\* the chain with its first four branches in the given order: the first
\* branch whose condition holds, the else branch when none does
RECURSIVE FirstMatch(_, _, _, _, _)
FirstMatch(order, k, pdfs, notes, attachments) ==
    IF k > Len(order) THEN RuleOutcome(5, pdfs, notes, attachments)
    ELSE IF RuleGuard(order[k], pdfs, notes, attachments)
         THEN RuleOutcome(order[k], pdfs, notes, attachments)
         ELSE FirstMatch(order, k + 1, pdfs, notes, attachments)

categorise_attachment_pattern(item_info) ==
    Categorise(num_pdfs(item_info.children), num_notes(item_info.children),
               num_attachments(item_info.children))

Categories == {"multiple_pdfs", "pdf_plus_notes", "multiple_notes", "mixed_content", "uncertain"}

\* the Priority column of the report's summary table
CategoryPriority(category) ==
    IF category = "multiple_pdfs" THEN "HIGH"
    ELSE IF category = "pdf_plus_notes" THEN "LOW"
    ELSE "MEDIUM"

\* [i for i in items_details if i]
Fetched(details) == SelectSeq(details, LAMBDA i : i # None)

\* item['category'] = ..., item['reasoning'] = ..., item['action'] = ...
WithCategory(item, result) ==
    [category |-> result.category, reasoning |-> result.reasoning,
     action |-> result.action] @@ item

\* the items of the list after the loop of generate_inspection_report has
\* added the three fields to each fetched one
CategorisedDetails(details) ==
    [k \in 1..Len(details) |->
        IF details[k] # None
        THEN WithCategory(details[k], categorise_attachment_pattern(details[k]))
        ELSE details[k]]

\* categorised[category]: the fetched items of the category, in list order
CategorisedAs(details, category) ==
    SelectSeq(Fetched(CategorisedDetails(details)), LAMBDA i : i.category = category)

CategoriseAll(details) == [c \in Categories |-> CategorisedAs(details, c)]

\* the counts and rows of reports/multiple_attachments_inspection.md
InspectionReport(details, cats) ==
    [total_items_inspected |-> Len(Fetched(details)),
     table |-> [c \in Categories |->
                   [count |-> Len(cats[c]), priority |-> CategoryPriority(c)]],
     multiple_pdfs |-> Take(cats["multiple_pdfs"], 20),
     pdf_plus_notes |-> Take(cats["pdf_plus_notes"], 5),
     multiple_notes |-> Take(cats["multiple_notes"], 5),
     mixed_content |-> Take(cats["mixed_content"], 10),
     uncertain |-> Take(cats["uncertain"], 10)]

\* variant: total_items counts the failed fetches too
DetailsDocument_AllSlots(details) ==
    [total_items |-> Len(details), items |-> Fetched(details)]

\* the document save_details_json dumps (generated_at and zotero_group_id
\* aside)
DetailsDocument(details) ==
    [total_items |-> Len(Fetched(details)), items |-> Fetched(details)]

\* the counts main prints: after loading, after the loop, and in the
\* category summary at the end
PrintedSummary(rows, details, cats) ==
    [loaded |-> Len(rows),
     retrieved |-> Len(Fetched(details)),
     multiple_pdfs |-> Len(cats["multiple_pdfs"]),
     pdf_plus_notes |-> Len(cats["pdf_plus_notes"]),
     multiple_notes |-> Len(cats["multiple_notes"]),
     mixed_content |-> Len(cats["mixed_content"]),
     uncertain |-> Len(cats["uncertain"])]

(***************************************************************************)
(* State.                                                                  *)
(***************************************************************************)
VARIABLES
    pc,                 \* the step the run is at
    items,              \* the records fetch_all_items returned
    tag_data,           \* stage 1: the tag table
    stats,              \* stage 1: the statistics
    files,              \* the output files written so far, by name
    tags,               \* stage 2: the tag table load_tag_data returned
    threshold,          \* stage 2: the threshold argument of find_similar_tags
    similar_pairs,      \* stage 2: result of find_similar_tags
    hierarchies,        \* stage 2: result of detect_hierarchies
    item_tags,          \* calculate_cooccurrence: the inverted index
    cooccurrence,       \* calculate_cooccurrence: the nested counter
    cooc_i,             \* calculate_cooccurrence: position of the Phase 2 loop
    total_pairs,        \* calculate_cooccurrence: pairs counted so far
    cooccurrence_list,  \* stage 2: result of calculate_cooccurrence
    exit_code,          \* exit status of the run, -1 while it runs
    library,            \* the source: the records of the Zotero library, in order
    start,              \* fetch_all_items: the offset of the next request
    requests,           \* the requests made so far: offset and size of the page
    inserted,           \* records added to the source since the fetch began
    deleted,            \* records removed from the source since the fetch began
    issues,             \* analyze_data_quality: the buckets
    title_map,          \* analyze_data_quality: lowercased title -> entries
    quality_i,          \* analyze_data_quality: position of the loop over items
    flagged_df,         \* stage 3: the rows load_flagged_items returned
    inspect_i,          \* stage 3: position of the loop over flagged_df
    attempts,           \* stage 3: the calls of fetch_item_details: key, and whether
                        \*          both source calls succeeded
    items_details,      \* stage 3: the list main collects, None for a failure
    categorised,        \* stage 3: result of generate_inspection_report
    summary,            \* stage 3: the counts main prints
    env,                \* the environment after load_dotenv()
    config,             \* the attributes of the config module, None before the import
    zot                 \* the client the running script created, None before that

fetch_vars == <<library, start, requests, inserted, deleted>>

quality_vars == <<issues, title_map, quality_i>>

inspect_vars == <<flagged_df, inspect_i, attempts, items_details, categorised, summary>>

later_vars == <<fetch_vars, quality_vars, inspect_vars>>

config_vars == <<env, config, zot, backend>>

vars == <<pc, items, tag_data, stats, files, tags, threshold, similar_pairs,
          hierarchies, item_tags, cooccurrence, cooc_i, total_pairs,
          cooccurrence_list, exit_code, later_vars, config_vars>>

stage1_vars == <<items, tag_data, stats>>

analysis_vars == <<tags, threshold, similar_pairs, hierarchies>>

cooc_vars == <<item_tags, cooccurrence, cooc_i, total_pairs, cooccurrence_list>>

NoStats ==
    [total_items |-> 0, items_with_tags |-> 0, items_without_tags |-> 0,
     unique_tags |-> 0, total_tag_applications |-> 0, avg_tags_per_item |-> Zero,
     max_tags_per_item |-> 0, min_tags_per_item |-> 0]

NoFiles == [name \in {} |-> 0]

\* the file stage 3 reads
FlaggedCsv == "quality_multiple_attachments.csv"

\* the rows an earlier stage-2 run exported, when the library held a record
\* with several children that has since lost them
EarlierFlagged == << [key |-> "Q0", title |-> Flood, num_attachments |-> 2] >>

\* the data directory before a stage-2 run: empty, or with the export of an
\* earlier run
EarlierFiles == {NoFiles, (FlaggedCsv :> EarlierFlagged)}

WriteFile(fs, name, content) == (name :> content) @@ fs

\* no fetch is under way
FetchIdle ==
    /\ library = <<>>
    /\ start = 0
    /\ requests = <<>>
    /\ inserted = 0
    /\ deleted = 0

NoIssues ==
    [duplicates |-> <<>>, non_primary_sources |-> <<>>, multiple_attachments |-> <<>>,
     no_attachments |-> <<>>, no_text_extraction |-> <<>>]

\* the quality analysis has not started
QualityIdle ==
    /\ issues = NoIssues
    /\ title_map = <<>>
    /\ quality_i = 0

NoCategories ==
    [multiple_pdfs |-> <<>>, pdf_plus_notes |-> <<>>, multiple_notes |-> <<>>,
     mixed_content |-> <<>>, uncertain |-> <<>>]

\* stage 3 has not started
InspectIdle ==
    /\ flagged_df = <<>>
    /\ inspect_i = 0
    /\ attempts = <<>>
    /\ items_details = <<>>
    /\ categorised = NoCategories
    /\ summary = <<>>

(***************************************************************************)
(* config.py.  A variable of the environment is a text, or None when it is *)
(* not set; os.getenv returns the default for a variable that is not set.  *)
(***************************************************************************)
Text(t) == [text |-> t]

\* Python's   not value   for a text or None
Not(value) == value = None \/ value = Text("")

getenv(environ, name, default) ==
    IF environ[name] = None THEN default ELSE environ[name]

\* the values a line of .env can give a variable
Settings(t) == {None, Text(""), Text(t)}

Environments ==
    [ZOTERO_GROUP_ID : Settings("2258643"),
     ZOTERO_API_KEY_READONLY : Settings("readonly-key"),
     ZOTERO_API_KEY_READWRITE : Settings("readwrite-key"),
     ZOTERO_API_KEY : Settings("legacy-key"),
     ZOTERO_LIBRARY_TYPE : {None, Text("user")}]

\* the module-level assignments
ConfigOf(environ) ==
    [ZOTERO_GROUP_ID |-> getenv(environ, "ZOTERO_GROUP_ID", None),
     ZOTERO_API_KEY_READONLY |-> getenv(environ, "ZOTERO_API_KEY_READONLY", None),
     ZOTERO_API_KEY_READWRITE |-> getenv(environ, "ZOTERO_API_KEY_READWRITE", None),
     ZOTERO_API_KEY |-> getenv(environ, "ZOTERO_API_KEY", None),
     ZOTERO_LIBRARY_TYPE |-> getenv(environ, "ZOTERO_LIBRARY_TYPE", Text("group"))]

\* the two validation checks: the import raises ValueError
ConfigRaises(c) ==
    \/ Not(c.ZOTERO_GROUP_ID)
    \/ /\ Not(c.ZOTERO_API_KEY_READONLY)
       /\ Not(c.ZOTERO_API_KEY_READWRITE)
       /\ Not(c.ZOTERO_API_KEY)

\* zotero.Zotero(library_id, library_type, api_key) as connect_to_zotero calls it
Client(c) ==
    [library_id |-> c.ZOTERO_GROUP_ID,
     library_type |-> c.ZOTERO_LIBRARY_TYPE,
     api_key |-> c.ZOTERO_API_KEY_READONLY]

\* the project's .env: the group and a read-only key
ProjectEnv ==
    [ZOTERO_GROUP_ID |-> Text("2258643"),
     ZOTERO_API_KEY_READONLY |-> Text("readonly-key"),
     ZOTERO_API_KEY_READWRITE |-> None,
     ZOTERO_API_KEY |-> None,
     ZOTERO_LIBRARY_TYPE |-> None]

ConfigLoaded ==
    /\ env = ProjectEnv
    /\ config = ConfigOf(ProjectEnv)

Stage2Init ==
    /\ tags = <<>>
    /\ similar_pairs = <<>>
    /\ hierarchies = <<>>
    /\ item_tags = <<>>
    /\ cooccurrence = <<>>
    /\ cooc_i = 0
    /\ total_pairs = 0
    /\ cooccurrence_list = <<>>
    /\ exit_code = -1

\* a stage-1 run is about to process the records it fetched
Init ==
    /\ pc = "extract_tags_from_items"
    /\ items \in ItemCollections
    /\ tag_data = <<>>
    /\ stats = NoStats
    /\ files = NoFiles
    /\ threshold = DefaultThreshold
    /\ Stage2Init
    /\ FetchIdle
    /\ QualityIdle
    /\ InspectIdle
    /\ ConfigLoaded
    /\ zot = Client(config)
    /\ backend \in Backends

\* the statistics stage 1 computed for the records R1 (carrying every tag of
\* the table) and R2 (carrying the tags applied twice)
TableStats(td) ==
    LET n1 == Len(td)
        n2 == Cardinality({k \in 1..Len(td) : td[k].val.count = 2})
        per == (IF n1 > 0 THEN <<n1>> ELSE <<>>) \o (IF n2 > 0 THEN <<n2>> ELSE <<>>)
    IN  [total_items |-> Len(per), items_with_tags |-> Len(per), items_without_tags |-> 0,
         unique_tags |-> n1, total_tag_applications |-> n1 + n2,
         avg_tags_per_item |-> AvgTagsPerItem(per),
         max_tags_per_item |-> MaxTagsPerItem(per),
         min_tags_per_item |-> MinTagsPerItem(per)]

\* a stage-2 run starts on the raw_tags.json an earlier stage-1 run left
InitAnalysis ==
    /\ pc = "load_tag_data"
    /\ items = <<>>
    /\ tag_data = <<>>
    /\ stats = NoStats
    /\ \E td \in TagTables :
           files = WriteFile(NoFiles, "raw_tags.json", RawTagsFile(td, TableStats(td)))
    /\ threshold \in Thresholds
    /\ Stage2Init
    /\ FetchIdle
    /\ QualityIdle
    /\ InspectIdle
    /\ ConfigLoaded
    /\ zot = None
    /\ backend \in Backends

(***************************************************************************)
(* Stage 1.                                                                *)
(***************************************************************************)
ExtractTags ==
    /\ pc = "extract_tags_from_items"
    /\ tag_data' = extract_tags_from_items(items).tag_data
    /\ stats' = extract_tags_from_items(items).stats
    /\ pc' = "save_raw_tags"
    /\ UNCHANGED <<items, files, analysis_vars, cooc_vars, exit_code>>
    /\ UNCHANGED later_vars
    /\ UNCHANGED config_vars

SaveRawTags ==
    /\ pc = "save_raw_tags"
    /\ files' = WriteFile(files, "raw_tags.json", RawTagsFile(tag_data, stats))
    /\ pc' = "create_frequency_table"
    /\ UNCHANGED <<stage1_vars, analysis_vars, cooc_vars, exit_code>>
    /\ UNCHANGED later_vars
    /\ UNCHANGED config_vars

\* frequency_df = create_frequency_table(tag_data); an exception is caught
\* by main, which exits with code 1
CreateFrequencyTable ==
    /\ pc = "create_frequency_table"
    /\ IF FrequencyTableFails(tag_data)
       THEN /\ pc' = "stage1_aborted"
            /\ exit_code' = 1
            /\ UNCHANGED files
       ELSE /\ \E frequency_df \in create_frequency_table(tag_data) :
                  files' = WriteFile(files, "tag_frequency.csv", frequency_df)
            /\ pc' = "generate_summary_report"
            /\ UNCHANGED exit_code
    /\ UNCHANGED <<stage1_vars, analysis_vars, cooc_vars, later_vars>>
    /\ UNCHANGED config_vars

\* generate_summary_report(stats, tag_data, frequency_df), and the end of main;
\* frequency_df is the frame create_frequency_table returned and wrote
GenerateSummaryReport ==
    /\ pc = "generate_summary_report"
    /\ IF SummaryReportFails(stats)
       THEN /\ pc' = "stage1_aborted"
            /\ exit_code' = 1
            /\ UNCHANGED files
       ELSE /\ files' = WriteFile(files, "tag_summary.md",
                                  SummaryReport(stats, tag_data,
                                                files["tag_frequency.csv"]))
            /\ pc' = "stage1_done"
            /\ exit_code' = 0
    /\ UNCHANGED <<stage1_vars, analysis_vars, cooc_vars, later_vars>>
    /\ UNCHANGED config_vars

\* script 02 is started after script 01 has finished
Stage2Main ==
    /\ pc \in {"stage1_done", "stage1_aborted"}
    /\ pc' = "load_tag_data"
    /\ exit_code' = -1
    /\ UNCHANGED <<stage1_vars, files, analysis_vars, cooc_vars>>
    /\ UNCHANGED later_vars
    /\ UNCHANGED config_vars

(***************************************************************************)
(* Stage 2, tag analysis phase of main.                                    *)
(***************************************************************************)
LoadTagData ==
    /\ pc = "load_tag_data"
    /\ "raw_tags.json" \in DOMAIN files
    /\ tags' = load_tag_data(files["raw_tags.json"]).tags
    /\ pc' = "find_similar_tags"
    /\ UNCHANGED <<stage1_vars, files, threshold, similar_pairs, hierarchies,
                   cooc_vars, exit_code>>
    /\ UNCHANGED later_vars
    /\ UNCHANGED config_vars

FindSimilarTags ==
    /\ pc = "find_similar_tags"
    /\ similar_pairs' = find_similar_tags(tags, threshold)
    /\ pc' = "detect_hierarchies"
    /\ UNCHANGED <<stage1_vars, files, tags, threshold, hierarchies, cooc_vars, exit_code>>
    /\ UNCHANGED later_vars
    /\ UNCHANGED config_vars

DetectHierarchies ==
    /\ pc = "detect_hierarchies"
    /\ hierarchies' = detect_hierarchies(tags)
    /\ pc' = "calculate_cooccurrence"
    /\ UNCHANGED <<stage1_vars, files, tags, threshold, similar_pairs, cooc_vars, exit_code>>
    /\ UNCHANGED later_vars
    /\ UNCHANGED config_vars

\* calculate_cooccurrence, Phase 1
CoocBuildIndex ==
    /\ pc = "calculate_cooccurrence"
    /\ item_tags' = BuildItemTags(<<>>, tags)
    /\ cooccurrence' = <<>>
    /\ cooc_i' = 1
    /\ total_pairs' = 0
    /\ pc' = "cooccurrence_count"
    /\ UNCHANGED <<stage1_vars, files, analysis_vars, cooccurrence_list, exit_code>>
    /\ UNCHANGED later_vars
    /\ UNCHANGED config_vars

\* calculate_cooccurrence, Phase 2: one iteration of the loop over item_tags
CoocCountItem ==
    /\ pc = "cooccurrence_count"
    /\ cooc_i <= Len(item_tags)
    /\ cooccurrence' = CountPairs(cooccurrence, ItemPairs(item_tags[cooc_i].val))
    /\ total_pairs' = total_pairs + Len(ItemPairs(item_tags[cooc_i].val))
    /\ cooc_i' = cooc_i + 1
    /\ UNCHANGED <<pc, stage1_vars, files, analysis_vars, item_tags,
                   cooccurrence_list, exit_code>>
    /\ UNCHANGED later_vars
    /\ UNCHANGED config_vars

\* calculate_cooccurrence, Phase 3 and the final sort
CoocMaterialize ==
    /\ pc = "cooccurrence_count"
    /\ cooc_i > Len(item_tags)
    /\ cooccurrence_list' = CooccurrenceList(tags, cooccurrence)
    /\ pc' = "save_similar_tags"
    /\ UNCHANGED <<stage1_vars, files, analysis_vars, item_tags, cooccurrence,
                   cooc_i, total_pairs, exit_code>>
    /\ UNCHANGED later_vars
    /\ UNCHANGED config_vars

\* pd.DataFrame([]) has no 'similarity' column: sort_values raises KeyError,
\* which main catches and turns into sys.exit(1)
SaveSimilarTags ==
    /\ pc = "save_similar_tags"
    /\ IF similar_pairs = <<>>
       THEN /\ pc' = "aborted"
            /\ exit_code' = 1
            /\ UNCHANGED files
       ELSE /\ \E df \in SimilarTagsCsv(similar_pairs) :
                  files' = WriteFile(files, "similar_tags.csv", df)
            /\ pc' = "save_cooccurrence"
            /\ UNCHANGED exit_code
    /\ UNCHANGED <<stage1_vars, analysis_vars, cooc_vars>>
    /\ UNCHANGED later_vars
    /\ UNCHANGED config_vars

SaveCooccurrence ==
    /\ pc = "save_cooccurrence"
    /\ files' = WriteFile(files, "tag_network.json", [cooccurrences |-> cooccurrence_list])
    /\ pc' = "visualize_cooccurrence"
    /\ UNCHANGED <<stage1_vars, analysis_vars, cooc_vars, exit_code>>
    /\ UNCHANGED later_vars
    /\ UNCHANGED config_vars

\* returns without saving when the graph has no node
VisualizeCooccurrence ==
    /\ pc = "visualize_cooccurrence"
    /\ files' = IF GraphEdges(cooccurrence_list, tags, TopN) = {} THEN files
                ELSE WriteFile(files, "tag_cooccurrence.png",
                               GraphEdges(cooccurrence_list, tags, TopN))
    /\ pc' = "generate_analysis_report"
    /\ UNCHANGED <<stage1_vars, analysis_vars, cooc_vars, exit_code>>
    /\ UNCHANGED later_vars
    /\ UNCHANGED config_vars

GenerateAnalysisReport ==
    /\ pc = "generate_analysis_report"
    /\ files' = WriteFile(files, "tag_analysis.md",
                          AnalysisReport(similar_pairs, hierarchies, cooccurrence_list))
    /\ pc' = "analysis_done"
    /\ UNCHANGED <<stage1_vars, analysis_vars, cooc_vars, exit_code>>
    /\ UNCHANGED later_vars
    /\ UNCHANGED config_vars

Next ==
    \/ ExtractTags
    \/ SaveRawTags
    \/ CreateFrequencyTable
    \/ GenerateSummaryReport
    \/ Stage2Main
    \/ LoadTagData
    \/ FindSimilarTags
    \/ DetectHierarchies
    \/ CoocBuildIndex
    \/ CoocCountItem
    \/ CoocMaterialize
    \/ SaveSimilarTags
    \/ SaveCooccurrence
    \/ VisualizeCooccurrence
    \/ GenerateAnalysisReport

Spec == Init /\ [][Next]_vars

NextAnalysis ==
    \/ LoadTagData
    \/ FindSimilarTags
    \/ DetectHierarchies
    \/ CoocBuildIndex
    \/ CoocCountItem
    \/ CoocMaterialize
    \/ SaveSimilarTags
    \/ SaveCooccurrence
    \/ VisualizeCooccurrence
    \/ GenerateAnalysisReport

SpecAnalysis == InitAnalysis /\ [][NextAnalysis]_vars

\* the start of the same run, up to the end of detect_hierarchies: the two
\* lists main computes first, before the co-occurrence and the outputs
NextDetection ==
    \/ LoadTagData
    \/ FindSimilarTags
    \/ DetectHierarchies

SpecDetection == InitAnalysis /\ [][NextDetection]_vars

(***************************************************************************)
(* Stage 2, data quality phase of main.                                    *)
(***************************************************************************)
\* the quality phase of a stage-2 run is about to check the items it fetched
InitQuality ==
    /\ pc = "analyze_data_quality"
    /\ items \in FetchedCollections
    /\ tag_data = <<>>
    /\ stats = NoStats
    /\ files \in EarlierFiles
    /\ threshold = DefaultThreshold
    /\ Stage2Init
    /\ FetchIdle
    /\ issues = NoIssues
    /\ title_map = <<>>
    /\ quality_i = 1
    /\ InspectIdle
    /\ ConfigLoaded
    /\ zot = Client(config)
    /\ backend \in Backends

\* one iteration of   for item in items
QualityCheckItem ==
    /\ pc = "analyze_data_quality"
    /\ quality_i <= Len(items)
    /\ title_map' = TitleMapAdd(title_map, items[quality_i])
    /\ issues' = CheckAttachments(CheckNonPrimary(issues, items[quality_i]), items[quality_i])
    /\ quality_i' = quality_i + 1
    /\ UNCHANGED <<pc, stage1_vars, files, analysis_vars, cooc_vars, exit_code,
                   fetch_vars, inspect_vars>>
    /\ UNCHANGED config_vars

\* the loop over title_map.items(), and the return
QualityDuplicates ==
    /\ pc = "analyze_data_quality"
    /\ quality_i > Len(items)
    /\ issues' = [issues EXCEPT !.duplicates = @ \o DuplicatesOf(title_map)]
    /\ pc' = "generate_quality_report"
    /\ UNCHANGED <<stage1_vars, files, analysis_vars, cooc_vars, exit_code,
                   fetch_vars, title_map, quality_i, inspect_vars>>
    /\ UNCHANGED config_vars

GenerateQualityReport ==
    /\ pc = "generate_quality_report"
    /\ files' = QualityCsvs(issues)
                    @@ WriteFile(files, "data_quality_issues.md", QualityReport(issues))
    /\ pc' = "quality_done"
    /\ UNCHANGED <<stage1_vars, analysis_vars, cooc_vars, exit_code, later_vars>>
    /\ UNCHANGED config_vars

\* the files main names under "Outputs created"
OutputsCreated ==
    {"similar_tags.csv", "tag_network.json", "tag_cooccurrence.png",
     "tag_analysis.md", "data_quality_issues.md"}

\* the end of main's try block: the success banner and the list of outputs
CompletionSummary ==
    /\ pc = "quality_done"
    /\ pc' = "stage2_done"
    /\ exit_code' = 0
    /\ UNCHANGED <<stage1_vars, files, analysis_vars, cooc_vars, later_vars>>
    /\ UNCHANGED config_vars

\* script 03 is started after script 02 has finished:
\* flagged_df = load_flagged_items(); a missing file raises
\* FileNotFoundError, which main turns into sys.exit(1)
LoadFlaggedItems ==
    /\ pc = "stage2_done"
    /\ IF FlaggedCsv \in DOMAIN files
       THEN /\ flagged_df' = files[FlaggedCsv]
            /\ inspect_i' = 1
            /\ pc' = "fetch_item_details"
            /\ exit_code' = -1
       ELSE /\ pc' = "inspection_aborted"
            /\ exit_code' = 1
            /\ UNCHANGED <<flagged_df, inspect_i>>
    /\ UNCHANGED <<stage1_vars, files, analysis_vars, cooc_vars, fetch_vars, quality_vars,
                   attempts, items_details, categorised, summary>>
    /\ UNCHANGED config_vars

NextQuality ==
    \/ QualityCheckItem
    \/ QualityDuplicates
    \/ GenerateQualityReport
    \/ CompletionSummary
    \/ LoadFlaggedItems

SpecQuality == InitQuality /\ [][NextQuality]_vars

(***************************************************************************)
(* The fetch loop of fetch_all_items, which analyze_data_quality repeats,  *)
(* one request per step, while other users of the group library add and   *)
(* remove records between the requests.                                    *)
(***************************************************************************)
\* the steps of a run that are this loop: the function on its own, in main of
\* 01_extract_tags.py, and at the head of analyze_data_quality
FetchLoops == {"fetch_all_items", "stage1_fetch_all_items", "analyze_data_quality_fetch"}

\* where the run goes on when the loop has ended
AfterFetch(at) ==
    IF at = "fetch_all_items" THEN "fetched"
    ELSE IF at = "stage1_fetch_all_items" THEN "extract_tags_from_items"
    ELSE "analyze_data_quality"

\* the n-th record other users add during the loop
AddedRecord(at, n) ==
    IF at = "fetch_all_items" THEN Record(MaxRecords + n)
    ELSE IF at = "stage1_fetch_all_items"
        THEN [key |-> "A" \o ToString(n),
              data |-> [title |-> "Added", tags |-> <<TagObj(Mining)>>]]
    ELSE [key |-> "A" \o ToString(n), meta |-> [numChildren |-> 2],
          data |-> [title |-> Flood, itemType |-> "newspaperArticle", date |-> "1892"]]

\* one iteration of   while True:   that ends with   start += limit
FetchPage ==
    /\ pc \in FetchLoops
    /\ ~EndOfSource(Page(library, start, limit))
    /\ requests' = Append(requests, [start |-> start, limit |-> limit,
                                     size |-> Len(Page(library, start, limit))])
    /\ items' = items \o Page(library, start, limit)
    /\ start' = NextStart(start)
    /\ UNCHANGED <<pc, tag_data, stats, files, analysis_vars, cooc_vars, exit_code,
                   library, inserted, deleted, quality_vars, inspect_vars>>
    /\ UNCHANGED config_vars

\* the iteration that ends with   break;   the loop over the fetched records
\* of analyze_data_quality starts at the first one
FetchEnd ==
    /\ pc \in FetchLoops
    /\ EndOfSource(Page(library, start, limit))
    /\ requests' = Append(requests, [start |-> start, limit |-> limit,
                                     size |-> Len(Page(library, start, limit))])
    /\ pc' = AfterFetch(pc)
    /\ quality_i' = IF pc = "analyze_data_quality_fetch" THEN 1 ELSE quality_i
    /\ UNCHANGED <<stage1_vars, files, analysis_vars, cooc_vars, exit_code,
                   library, start, inserted, deleted, issues, title_map, inspect_vars>>
    /\ UNCHANGED config_vars

\* a request raises: the exception reaches main, which exits with code 1
FetchRaises ==
    /\ pc \in {"stage1_fetch_all_items", "analyze_data_quality_fetch"}
    /\ pc' = IF pc = "stage1_fetch_all_items" THEN "stage1_aborted" ELSE "aborted"
    /\ exit_code' = 1
    /\ UNCHANGED <<stage1_vars, files, analysis_vars, cooc_vars, later_vars>>
    /\ UNCHANGED config_vars

\* between two requests a record is added to the library, anywhere in the
\* order of the source
SourceInsert ==
    /\ pc \in FetchLoops
    /\ inserted + deleted < MaxMutations
    /\ \E pos \in 0..Len(library) :
          library' = InsertAt(library, pos, AddedRecord(pc, inserted + 1))
    /\ inserted' = inserted + 1
    /\ UNCHANGED <<pc, stage1_vars, files, analysis_vars, cooc_vars, exit_code,
                   start, requests, deleted, quality_vars, inspect_vars>>
    /\ UNCHANGED config_vars

\* between two requests a record is removed from the library
SourceDelete ==
    /\ pc \in FetchLoops
    /\ inserted + deleted < MaxMutations
    /\ \E pos \in 1..Len(library) : library' = RemoveAt(library, pos)
    /\ deleted' = deleted + 1
    /\ UNCHANGED <<pc, stage1_vars, files, analysis_vars, cooc_vars, exit_code,
                   start, requests, inserted, quality_vars, inspect_vars>>
    /\ UNCHANGED config_vars

(***************************************************************************)
(* A whole run of 02_analyze_tags.py main.  raw_tags.json is the file an   *)
(* earlier stage-1 run left, or is missing; the library is read once the   *)
(* tag analysis phase is over; main turns every exception into             *)
(* sys.exit(1).                                                            *)
(***************************************************************************)
InitStage2 ==
    /\ pc = "load_tag_data"
    /\ items = <<>>
    /\ tag_data = <<>>
    /\ stats = NoStats
    /\ \/ files = NoFiles
       \/ \E td \in {d \in TagTables : Len(d) <= MaxRunTags} :
              files = WriteFile(NoFiles, "raw_tags.json", RawTagsFile(td, TableStats(td)))
    /\ threshold = DefaultThreshold
    /\ Stage2Init
    /\ FetchIdle
    /\ QualityIdle
    /\ InspectIdle
    /\ ConfigLoaded
    /\ zot = None
    /\ backend \in Backends

\* load_tag_data: open() raises FileNotFoundError when stage 1 left no file
LoadTagDataMissing ==
    /\ pc = "load_tag_data"
    /\ "raw_tags.json" \notin DOMAIN files
    /\ pc' = "aborted"
    /\ exit_code' = 1
    /\ UNCHANGED <<stage1_vars, files, analysis_vars, cooc_vars, later_vars>>
    /\ UNCHANGED config_vars

\* main: zot = zotero.Zotero(...), then issues = analyze_data_quality(zot),
\* whose fetch loop begins; library is the group library as it is then
Stage2CreateClient ==
    /\ pc = "analysis_done"
    /\ zot' = Client(config)
    /\ library' \in RunLibraries
    /\ pc' = "analyze_data_quality_fetch"
    /\ UNCHANGED <<stage1_vars, files, analysis_vars, cooc_vars, exit_code,
                   start, requests, inserted, deleted, quality_vars, inspect_vars>>
    /\ UNCHANGED <<env, config, backend>>

NextStage2 ==
    \/ LoadTagData
    \/ LoadTagDataMissing
    \/ FindSimilarTags
    \/ DetectHierarchies
    \/ CoocBuildIndex
    \/ CoocCountItem
    \/ CoocMaterialize
    \/ SaveSimilarTags
    \/ SaveCooccurrence
    \/ VisualizeCooccurrence
    \/ GenerateAnalysisReport
    \/ Stage2CreateClient
    \/ FetchPage
    \/ FetchEnd
    \/ FetchRaises
    \/ SourceInsert
    \/ SourceDelete
    \/ QualityCheckItem
    \/ QualityDuplicates
    \/ GenerateQualityReport
    \/ CompletionSummary

SpecStage2 == InitStage2 /\ [][NextStage2]_vars

(***************************************************************************)
(* A whole run of 01_extract_tags.py main, from the connection on.  The    *)
(* client is created without a request; the requests of fetch_all_items    *)
(* can fail (network, authorisation), and main turns every exception into  *)
(* sys.exit(1).                                                            *)
(***************************************************************************)
InitStage1 ==
    /\ pc = "connect_to_zotero"
    /\ items = <<>>
    /\ tag_data = <<>>
    /\ stats = NoStats
    /\ files = NoFiles
    /\ threshold = DefaultThreshold
    /\ Stage2Init
    /\ library \in ItemCollections
    /\ start = 0
    /\ requests = <<>>
    /\ inserted = 0
    /\ deleted = 0
    /\ QualityIdle
    /\ InspectIdle
    /\ ConfigLoaded
    /\ zot = None
    /\ backend = NotImported

\* zot = connect_to_zotero()
ConnectToZotero ==
    /\ pc = "connect_to_zotero"
    /\ zot' = Client(config)
    /\ pc' = "stage1_fetch_all_items"
    /\ UNCHANGED <<stage1_vars, files, analysis_vars, cooc_vars, exit_code, later_vars>>
    /\ UNCHANGED <<env, config, backend>>

(***************************************************************************)
(* The start of a script: "import config" runs the module, whose           *)
(* validation raises ValueError before main is called; otherwise main      *)
(* connects.                                                               *)
(***************************************************************************)
InitConfig ==
    /\ pc = "import_config"
    /\ items = <<>>
    /\ tag_data = <<>>
    /\ stats = NoStats
    /\ files = NoFiles
    /\ threshold = DefaultThreshold
    /\ Stage2Init
    /\ FetchIdle
    /\ QualityIdle
    /\ InspectIdle
    /\ env \in Environments
    /\ config = None
    /\ zot = None
    /\ backend = NotImported

ImportConfig ==
    /\ pc = "import_config"
    /\ IF ConfigRaises(ConfigOf(env))
       THEN /\ pc' = "config_error"
            /\ exit_code' = 1
            /\ UNCHANGED config
       ELSE /\ config' = ConfigOf(env)
            /\ pc' = "connect_to_zotero"
            /\ UNCHANGED exit_code
    /\ UNCHANGED <<stage1_vars, files, analysis_vars, cooc_vars, later_vars, env, zot, backend>>

NextConfig ==
    \/ ImportConfig
    \/ ConnectToZotero

SpecConfig == InitConfig /\ [][NextConfig]_vars

NextStage1 ==
    \/ ConnectToZotero
    \/ FetchPage
    \/ FetchEnd
    \/ FetchRaises
    \/ SourceInsert
    \/ SourceDelete
    \/ ExtractTags
    \/ SaveRawTags
    \/ CreateFrequencyTable
    \/ GenerateSummaryReport

SpecStage1 == InitStage1 /\ [][NextStage1]_vars

(***************************************************************************)
(* The hand-off from stage 1 to stage 2 on records whose tag names need    *)
(* escaping: extract, save, start of script 02, load.                      *)
(***************************************************************************)
InitHandOff ==
    /\ pc = "extract_tags_from_items"
    /\ items \in EscapeCollections
    /\ tag_data = <<>>
    /\ stats = NoStats
    /\ files = NoFiles
    /\ threshold = DefaultThreshold
    /\ Stage2Init
    /\ FetchIdle
    /\ QualityIdle
    /\ InspectIdle
    /\ ConfigLoaded
    /\ zot = Client(config)
    /\ backend \in Backends

NextHandOff ==
    \/ ExtractTags
    \/ SaveRawTags
    \/ CreateFrequencyTable
    \/ GenerateSummaryReport
    \/ Stage2Main
    \/ LoadTagData

SpecHandOff == InitHandOff /\ [][NextHandOff]_vars

(***************************************************************************)
(* fetch_all_items, one request per step, while other users of the group   *)
(* library add and remove records between the requests.                    *)
(***************************************************************************)
InitFetch ==
    /\ pc = "fetch_all_items"
    /\ items = <<>>
    /\ tag_data = <<>>
    /\ stats = NoStats
    /\ files = NoFiles
    /\ threshold = DefaultThreshold
    /\ Stage2Init
    /\ \E n \in 0..MaxRecords : library = LibraryOf(n)
    /\ start = 0
    /\ requests = <<>>
    /\ inserted = 0
    /\ deleted = 0
    /\ QualityIdle
    /\ InspectIdle
    /\ ConfigLoaded
    /\ zot = Client(config)
    /\ backend = NotImported

NextFetch ==
    \/ FetchPage
    \/ FetchEnd
    \/ SourceInsert
    \/ SourceDelete

SpecFetch == InitFetch /\ [][NextFetch]_vars

\* the loop of fetch_all_items keeps running: a request is always answered
SpecFetchFair == SpecFetch /\ WF_vars(FetchPage \/ FetchEnd)

(***************************************************************************)
(* Stage 3, 03_inspect_multiple_attachments.py main: the flagged records   *)
(* are loaded, fetched one by one, categorised into the report, exported   *)
(* to JSON, and the summary is printed.                                    *)
(***************************************************************************)
InitInspect ==
    /\ pc = "fetch_item_details"
    /\ items = <<>>
    /\ tag_data = <<>>
    /\ stats = NoStats
    /\ files = NoFiles
    /\ threshold = DefaultThreshold
    /\ Stage2Init
    /\ FetchIdle
    /\ QualityIdle
    /\ \E n \in 0..MaxFlagged : flagged_df = Take(FlaggedRows, n)
    /\ inspect_i = 1
    /\ attempts = <<>>
    /\ items_details = <<>>
    /\ categorised = NoCategories
    /\ summary = <<>>
    /\ ConfigLoaded
    /\ zot = Client(config)
    /\ backend = NotImported

\* one iteration of   for idx, row in flagged_df.iterrows()
FetchItemDetails ==
    /\ pc = "fetch_item_details"
    /\ inspect_i <= Len(flagged_df)
    /\ \E response \in Responses :
          /\ items_details' = Append(items_details,
                                     fetch_item_details(response, flagged_df[inspect_i].key))
          /\ attempts' = Append(attempts, [key |-> flagged_df[inspect_i].key,
                                           ok |-> response.status = "ok"])
    /\ inspect_i' = inspect_i + 1
    /\ UNCHANGED <<pc, stage1_vars, files, analysis_vars, cooc_vars, exit_code,
                   fetch_vars, quality_vars, flagged_df, categorised, summary>>
    /\ UNCHANGED config_vars

\* categorised = generate_inspection_report(items_details)
GenerateInspectionReport ==
    /\ pc = "fetch_item_details"
    /\ inspect_i > Len(flagged_df)
    /\ items_details' = CategorisedDetails(items_details)
    /\ categorised' = CategoriseAll(items_details)
    /\ files' = WriteFile(files, "multiple_attachments_inspection.md",
                          InspectionReport(items_details, CategoriseAll(items_details)))
    /\ pc' = "save_details_json"
    /\ UNCHANGED <<stage1_vars, analysis_vars, cooc_vars, exit_code, fetch_vars,
                   quality_vars, flagged_df, inspect_i, attempts, summary>>
    /\ UNCHANGED config_vars

\* save_details_json(items_details)
SaveDetailsJson ==
    /\ pc = "save_details_json"
    /\ files' = WriteFile(files, "multiple_attachments_details.json",
                          DetailsDocument(items_details))
    /\ pc' = "inspection_summary"
    /\ UNCHANGED <<stage1_vars, analysis_vars, cooc_vars, exit_code, later_vars>>
    /\ UNCHANGED config_vars

\* the prints that end main; main returns and the process exits with status 0
PrintSummary ==
    /\ pc = "inspection_summary"
    /\ summary' = PrintedSummary(flagged_df, items_details, categorised)
    /\ pc' = "inspection_done"
    /\ exit_code' = 0
    /\ UNCHANGED <<stage1_vars, files, analysis_vars, cooc_vars, fetch_vars,
                   quality_vars, flagged_df, inspect_i, attempts, items_details,
                   categorised>>
    /\ UNCHANGED config_vars

NextInspect ==
    \/ FetchItemDetails
    \/ GenerateInspectionReport
    \/ SaveDetailsJson
    \/ PrintSummary

SpecInspect == InitInspect /\ [][NextInspect]_vars

\* main is one sequential run: it keeps taking its next step
SpecInspectFair == SpecInspect /\ WF_vars(NextInspect)

(***************************************************************************)
(* Properties.                                                             *)
(***************************************************************************)
Extracted == pc # "extract_tags_from_items"

SimilarDone == pc \notin {"load_tag_data", "find_similar_tags"}

HierarchiesDone == pc \notin {"load_tag_data", "find_similar_tags", "detect_hierarchies"}

CoocDone == cooc_i > Len(item_tags) /\ pc # "cooccurrence_count"

TagList == DictKeys(tags)

\* the position of a tag in the tag table
TagIndex(tag) == CHOOSE k \in 1..Len(tags) : tags[k].key = tag

\* C1: in the tag table extract_tags_from_items returns, every tag has
\* count = len(items) = len(item_titles) and count >= 1
C1_CountIsNumberOfApplications ==
    \A k \in 1..Len(tag_data) :
        /\ tag_data[k].val.count = Len(tag_data[k].val.items)
        /\ tag_data[k].val.count = Len(tag_data[k].val.item_titles)
        /\ tag_data[k].val.count >= 1

\* a tag applied twice to the same record has been extracted
C1_Witness ==
    /\ pc = "save_raw_tags"
    /\ \E k \in 1..Len(tag_data) :
          /\ tag_data[k].val.count >= 2
          /\ \E i, j \in 1..Len(tag_data[k].val.items) :
                i # j /\ tag_data[k].val.items[i] = tag_data[k].val.items[j]

Scenario ==
    << [key |-> "R1", data |-> [title |-> "T1", tags |-> <<TagObj(Mining), TagObj(Katoomba)>>]],
       [key |-> "R2", data |-> [title |-> "T2", tags |-> <<TagObj(Mining)>>]],
       [key |-> "R3", data |-> [title |-> "T3", tags |-> <<>>]] >>

ScenarioStats ==
    [total_items |-> 3, items_with_tags |-> 2, items_without_tags |-> 1,
     unique_tags |-> 2, total_tag_applications |-> 3,
     avg_tags_per_item |-> [num |-> 3, den |-> 2],
     max_tags_per_item |-> 2, min_tags_per_item |-> 1]

\* C2: for R1 [Mining, Katoomba], R2 [Mining], R3 [] the tag table is
\* {Mining: 2, Katoomba: 1}, the statistics are 3 / 2 / 1 / 2 / 3 / 1.5 / 2 / 1
\* and calculate_cooccurrence yields the single pair Mining-Katoomba, count 1
C2_EndToEndScenario ==
    items = Scenario =>
        /\ Extracted =>
              /\ Range(DictKeys(tag_data)) = {Mining, Katoomba}
              /\ Len(tag_data) = 2
              /\ DictGet(tag_data, Mining).count = 2
              /\ DictGet(tag_data, Katoomba).count = 1
              /\ stats = ScenarioStats
        /\ CoocDone =>
              /\ Len(cooccurrence_list) = 1
              /\ {cooccurrence_list[1].tag1, cooccurrence_list[1].tag2} = {Mining, Katoomba}
              /\ cooccurrence_list[1].count = 1

C2_Witness == items = Scenario /\ CoocDone /\ pc = "save_similar_tags"

\* the tag lists of the tagged records of a collection
RECURSIVE TaggedLengths(_)
TaggedLengths(its) ==
    IF its = <<>> THEN <<>>
    ELSE (IF Get(Head(its).data, "tags", <<>>) # <<>>
          THEN <<Len(Head(its).data.tags)>> ELSE <<>>) \o TaggedLengths(Tail(its))

\* C3: avg = (sum of the tag-list lengths of the tagged records) / (number of
\* tagged records); with no tagged record avg, min and max are 0
C3_AverageOverTaggedRecords ==
    Extracted =>
        LET lens == TaggedLengths(items)
        IN  IF lens = <<>>
            THEN /\ stats.avg_tags_per_item = Zero
                 /\ stats.max_tags_per_item = 0
                 /\ stats.min_tags_per_item = 0
            ELSE /\ stats.avg_tags_per_item.num * Len(lens)
                        = stats.avg_tags_per_item.den * SumSeq(lens)
                 /\ stats.avg_tags_per_item.den > 0

\* a non-empty collection without any tagged record has been processed
C3_Witness ==
    /\ pc = "save_raw_tags"
    /\ Len(items) >= 2
    /\ stats.items_with_tags = 0
    /\ stats.items_without_tags = Len(items)
    /\ stats.avg_tags_per_item = Zero

\* C4: find_similar_tags returns only pairs with similarity >= threshold, no
\* unordered pair twice, no tag with itself, and every pair of the enumeration
\* (tag1 before tag2 in the table) whose similarity is >= threshold
C4_SimilarPairsExact ==
    SimilarDone =>
        /\ \A k \in 1..Len(similar_pairs) :
              /\ similar_pairs[k].similarity >= threshold
              /\ similar_pairs[k].similarity
                    = Max3(similar_pairs[k].ratio, similar_pairs[k].partial,
                           similar_pairs[k].token_sort)
              /\ similar_pairs[k].tag1 # similar_pairs[k].tag2
              /\ {similar_pairs[k].tag1, similar_pairs[k].tag2} \subseteq Range(TagList)
        /\ \A k1, k2 \in 1..Len(similar_pairs) :
              {similar_pairs[k1].tag1, similar_pairs[k1].tag2}
                  = {similar_pairs[k2].tag1, similar_pairs[k2].tag2} => k1 = k2
        /\ \A i, j \in 1..Len(TagList) :
              (/\ pc = "detect_hierarchies"
               /\ i < j
               /\ SimilarPair(tags, TagList[i], TagList[j]).similarity >= threshold)
                  => \E k \in 1..Len(similar_pairs) :
                        similar_pairs[k].tag1 = TagList[i] /\ similar_pairs[k].tag2 = TagList[j]
        /\ 2 * Len(similar_pairs) <= Len(TagList) * (Len(TagList) - 1)

\* of three tags, some pairs reached the threshold and some did not
C4_Witness ==
    /\ SimilarDone
    /\ Len(tags) = 3
    /\ threshold = 50
    /\ Len(similar_pairs) \in {1, 2}
    /\ \E k \in 1..Len(similar_pairs) : similar_pairs[k].similarity = threshold

Scores(a, b) ==
    <<fuzz_ratio(lower(a), lower(b)), fuzz_partial_ratio(lower(a), lower(b)),
      fuzz_token_sort_ratio(lower(a), lower(b))>>

\* C5: the three scores and their maximum are the same for (A, B) and (B, A)
C5_SimilaritySymmetric ==
    SimilarDone =>
        \A i, j \in 1..Len(TagList) :
            /\ Scores(TagList[i], TagList[j]) = Scores(TagList[j], TagList[i])
            /\ SimilarPair(tags, TagList[i], TagList[j]).similarity
                  = SimilarPair(tags, TagList[j], TagList[i]).similarity

\* C6: suggested_merge is the tag of the pair with the strictly higher count,
\* and tag1, the first of the pair in enumeration order, on a tie
C6_SuggestedMergeTarget ==
    SimilarDone =>
        \A k \in 1..Len(similar_pairs) :
            LET p == similar_pairs[k]
                c1 == DictGet(tags, p.tag1).count
                c2 == DictGet(tags, p.tag2).count
            IN  /\ p.suggested_merge \in {p.tag1, p.tag2}
                /\ c1 > c2 => p.suggested_merge = p.tag1
                /\ c2 > c1 => p.suggested_merge = p.tag2
                /\ c1 = c2 => p.suggested_merge = p.tag1
                /\ TagIndex(p.tag1) < TagIndex(p.tag2)

\* one emitted pair is a tie and another has the more frequent tag second
C6_Witness ==
    /\ SimilarDone
    /\ \E k \in 1..Len(similar_pairs) :
          /\ similar_pairs[k].count1 = similar_pairs[k].count2
          /\ similar_pairs[k].suggested_merge = similar_pairs[k].tag1
    /\ \E k \in 1..Len(similar_pairs) :
          /\ similar_pairs[k].count1 < similar_pairs[k].count2
          /\ similar_pairs[k].suggested_merge = similar_pairs[k].tag2

\* C7: the 'Top 20 Most Similar Tag Pairs' table of the analysis report lists
\* the emitted pairs of highest similarity in descending similarity order
C7_ReportPairsDescending ==
    (threshold = DefaultThreshold /\ "tag_analysis.md" \in DOMAIN files) =>
        LET rows == files["tag_analysis.md"].similar_rows
        IN  /\ \A k \in 1..(Len(rows) - 1) : rows[k].similarity >= rows[k + 1].similarity
            /\ \A k \in 1..Len(similar_pairs) :
                  (\A r \in 1..Len(rows) :
                      <<rows[r].tag1, rows[r].tag2>>
                          # <<similar_pairs[k].tag1, similar_pairs[k].tag2>>)
                  => \A r \in 1..Len(rows) : similar_pairs[k].similarity <= rows[r].similarity

\* C8: every candidate of detect_hierarchies has distinct terms with
\* lower(narrower) a strict substring of lower(broader); tags that differ only
\* in letter case form no candidate
C8_HierarchyStrictSubstring ==
    HierarchiesDone =>
        \A k \in 1..Len(hierarchies) :
            LET a == hierarchies[k].narrower_term
                b == hierarchies[k].broader_term
            IN  /\ a # b
                /\ {a, b} \subseteq Range(TagList)
                /\ IsSubstring(lower(a), lower(b))
                /\ lower(a) # lower(b)
                /\ Len(a) < Len(b)

\* candidates were found in a table that also holds two tags differing only
\* in letter case
C8_Witness ==
    /\ HierarchiesDone
    /\ hierarchies # <<>>
    /\ \E i, j \in 1..Len(TagList) :
          TagList[i] # TagList[j] /\ lower(TagList[i]) = lower(TagList[j])

StrictlyContained(a, b) ==
    a # b /\ IsSubstring(lower(a), lower(b)) /\ lower(a) # lower(b)

\* C9: for every ordered pair (A, B) of distinct tags with lower(A) a strict
\* substring of lower(B) exactly one candidate (narrower A, broader B) is
\* emitted, with the counts of B and A; (A, B) and (B, A) are never both emitted
C9_HierarchyBothDirections ==
    HierarchiesDone =>
        /\ \A a, b \in Range(TagList) :
              StrictlyContained(a, b) =>
                  /\ Cardinality({k \in 1..Len(hierarchies) :
                                     /\ hierarchies[k].narrower_term = a
                                     /\ hierarchies[k].broader_term = b}) = 1
                  /\ \A k \in 1..Len(hierarchies) :
                        (hierarchies[k].narrower_term = a /\ hierarchies[k].broader_term = b)
                            => /\ hierarchies[k].broader_count = DictGet(tags, b).count
                               /\ hierarchies[k].narrower_count = DictGet(tags, a).count
        /\ \A k1, k2 \in 1..Len(hierarchies) :
              ~ /\ hierarchies[k1].narrower_term = hierarchies[k2].broader_term
                /\ hierarchies[k1].broader_term = hierarchies[k2].narrower_term

\* a candidate whose narrower term comes after its broader term in the table,
\* the two having different counts
C9_Witness ==
    /\ HierarchiesDone
    /\ \E k \in 1..Len(hierarchies) :
          /\ TagIndex(hierarchies[k].narrower_term) > TagIndex(hierarchies[k].broader_term)
          /\ hierarchies[k].narrower_count # hierarchies[k].broader_count

\* the records whose tag set holds both tags, from the tag table
SharedRecords(a, b) == Range(DictGet(tags, a).items) \cap Range(DictGet(tags, b).items)

\* C10: the counter is symmetric after every record; a record increments
\* exactly the pairs of its tag set, by 1 each (3 pairs for {X, Y, Z}, none for
\* 0 or 1 tags); the emitted count of a pair is the number of distinct records
\* holding both tags
C10_CooccurrenceCounting ==
    [][ /\ \A a, b \in Range(TagList') :
              CoCount(cooccurrence', a, b) = CoCount(cooccurrence', b, a)
        /\ (pc = "cooccurrence_count" /\ cooc_i' = cooc_i + 1) =>
              \A a, b \in Range(TagList) :
                  CoCount(cooccurrence', a, b)
                      = CoCount(cooccurrence, a, b)
                          + (IF a # b /\ {a, b} \subseteq item_tags[cooc_i].val THEN 1 ELSE 0)
        /\ (pc = "cooccurrence_count" /\ pc' # "cooccurrence_count") =>
              \A k \in 1..Len(cooccurrence_list') :
                  cooccurrence_list'[k].count
                      = Cardinality(SharedRecords(cooccurrence_list'[k].tag1,
                                                  cooccurrence_list'[k].tag2))
      ]_vars

\* a record with three tags has just been counted, after another record
C10_Witness ==
    /\ pc = "cooccurrence_count"
    /\ cooc_i >= 3
    /\ Cardinality(item_tags[cooc_i - 1].val) = 3
    /\ \E a, b \in Range(TagList) : CoCount(cooccurrence, a, b) >= 2

\* the unordered pair a co-occurrence entry stands for
PairOf(entry) == {entry.tag1, entry.tag2}

\* C11: the list calculate_cooccurrence returns holds every unordered pair of
\* tags sharing at least one record exactly once, no pair in both orders, no
\* pair of count 0, no tag with itself, and is ordered by non-increasing count
C11_CooccurrenceListExact ==
    CoocDone =>
        /\ \A k \in 1..Len(cooccurrence_list) :
              /\ cooccurrence_list[k].tag1 # cooccurrence_list[k].tag2
              /\ cooccurrence_list[k].count >= 1
        /\ \A k1, k2 \in 1..Len(cooccurrence_list) :
              k1 # k2 => PairOf(cooccurrence_list[k1]) # PairOf(cooccurrence_list[k2])
        /\ \A a, b \in Range(TagList) :
              (a # b /\ SharedRecords(a, b) # {}) =>
                  \E k \in 1..Len(cooccurrence_list) : PairOf(cooccurrence_list[k]) = {a, b}
        /\ \A k \in 1..(Len(cooccurrence_list) - 1) :
              cooccurrence_list[k].count >= cooccurrence_list[k + 1].count

\* three pairs were emitted, the first with a larger count than the last
C11_Witness ==
    /\ CoocDone
    /\ pc = "save_similar_tags"
    /\ Len(cooccurrence_list) >= 3
    /\ cooccurrence_list[1].count > cooccurrence_list[Len(cooccurrence_list)].count

\* the records analyze_data_quality has checked so far
Checked == 1..(quality_i - 1)

\* the child count of a record, 0 without child-count metadata
ChildCount(item) ==
    IF "meta" \in DOMAIN item /\ "numChildren" \in DOMAIN item.meta
    THEN item.meta.numChildren ELSE 0

\* how many entries of a bucket carry the key
EntriesOf(bucket, key) == Cardinality({k \in 1..Len(bucket) : bucket[k].key = key})

\* how often the record with the key was fetched and checked
TimesChecked(key) == Cardinality({j \in Checked : items[j].key = key})

\* C12: a checked record is in multiple_attachments iff its child count is
\* > 1 and in no_attachments iff it is 0 (0 also without child-count
\* metadata), once for each time it was fetched; with child count 1 it is in
\* neither, and never in both
C12_AttachmentBuckets ==
    \A k \in Checked :
        /\ EntriesOf(issues.multiple_attachments, items[k].key)
               = (IF ChildCount(items[k]) > 1 THEN TimesChecked(items[k].key) ELSE 0)
        /\ EntriesOf(issues.no_attachments, items[k].key)
               = (IF ChildCount(items[k]) = 0 THEN TimesChecked(items[k].key) ELSE 0)
        /\ ChildCount(items[k]) = 1 =>
               /\ EntriesOf(issues.multiple_attachments, items[k].key) = 0
               /\ EntriesOf(issues.no_attachments, items[k].key) = 0
        /\ ~ /\ EntriesOf(issues.multiple_attachments, items[k].key) > 0
             /\ EntriesOf(issues.no_attachments, items[k].key) > 0

\* records with child count 1, with more than 1 and without child-count
\* metadata have all been checked
C12_Witness ==
    /\ pc = "generate_quality_report"
    /\ \E a, b, c \in Checked :
          /\ ChildCount(items[a]) = 1
          /\ ChildCount(items[b]) > 1
          /\ "meta" \notin DOMAIN items[c]
          /\ EntriesOf(issues.no_attachments, items[c].key) = 1

\* the lowercased title of a record, of the placeholder when it has no title
NormalizedTitle(item) ==
    lower(IF "title" \in DOMAIN item.data THEN item.data.title ELSE NoTitleText)

\* the records of the collection sharing the record's lowercased title
SameTitle(k) == {j \in 1..Len(items) : NormalizedTitle(items[j]) = NormalizedTitle(items[k])}

\* the lowercased titles more than one record carries
SharedTitles ==
    {NormalizedTitle(items[k]) : k \in {j \in 1..Len(items) : Cardinality(SameTitle(j)) > 1}}

\* how often the record with the key is in the fetched collection
TimesFetched(key) == Cardinality({j \in 1..Len(items) : items[j].key = key})

\* C13 as amended: an entry of the fetched collection is in the duplicates
\* bucket iff another entry has the same lowercased title, and a record is
\* there once for each time it was fetched; the quality report counts one
\* group per lowercased title shared by more than one entry
C13_DuplicatesByTitle ==
    /\ pc \in {"generate_quality_report", "quality_done"} =>
          /\ \A k \in 1..Len(items) :
                EntriesOf(issues.duplicates, items[k].key)
                    = (IF Cardinality(SameTitle(k)) > 1 THEN TimesFetched(items[k].key) ELSE 0)
          /\ Len(issues.duplicates) = Cardinality({k \in 1..Len(items) : Cardinality(SameTitle(k)) > 1})
    /\ (pc = "quality_done" /\ SharedTitles # {}) =>
          /\ files["data_quality_issues.md"].duplicate_title_groups
                = <<Cardinality(SharedTitles)>>
          /\ files["data_quality_issues.md"].duplicates = Len(issues.duplicates)

\* the other records of the collection with the record's lowercased title
OthersWithTitle(k) == {items[j].key : j \in SameTitle(k)} \ {items[k].key}

\* C13 as stated: a record is in the duplicates bucket iff another record of
\* the collection has the same lowercased title, and then exactly once
C13_DuplicatesAmongRecords ==
    pc \in {"generate_quality_report", "quality_done"} =>
        \A k \in 1..Len(items) :
            EntriesOf(issues.duplicates, items[k].key)
                = (IF OthersWithTitle(k) # {} THEN 1 ELSE 0)

\* three records sharing one lowercased title were reported as one group
C13_Witness ==
    /\ pc = "quality_done"
    /\ Len(items) = 3
    /\ \A i, j \in 1..3 : items[i].key = items[j].key => i = j
    /\ Cardinality(SharedTitles) = 1
    /\ Len(issues.duplicates) = 3
    /\ files["data_quality_issues.md"].duplicate_title_groups = <<1>>

(***************************************************************************)
(* Stage 3: categories, failed fetches, summary.                           *)
(***************************************************************************)
Reported == pc \in {"save_details_json", "inspection_summary", "inspection_done"}

\* the number of children of the item that are the given child
CountOf(item, child) ==
    Cardinality({j \in 1..Len(item.children) : item.children[j] = ChildInfo(child)})

\* the item has exactly p PDFs, n notes and o other attachments
HasCounts(item, p, n, o) ==
    /\ item # None
    /\ CountOf(item, PdfChild) = p
    /\ CountOf(item, NoteChild) = n
    /\ CountOf(item, ImageChild) = o

InspectionTable == files["multiple_attachments_inspection.md"].table

\* the item is listed under the category, with the priority in the table
CategoryIs(item, category, priority) ==
    /\ item.category = category
    /\ InspectionTable[category].priority = priority

\* C14: categorise_attachment_pattern is total and deterministic: every
\* fetched item gets one of the five categories, items with the same children
\* get the same category, reasoning and action, and (PDFs, notes, others) =
\* (2,0,0) gives multiple_pdfs/HIGH, (1,1,0) pdf_plus_notes/LOW, (0,0,3)
\* mixed_content/MEDIUM, (0,0,0) uncertain/MEDIUM.
C14_CategoriseTotal ==
    Reported =>
        \A k \in 1..Len(items_details) :
            items_details[k] # None =>
                /\ items_details[k].category \in Categories
                /\ \A m \in 1..Len(items_details) :
                      (items_details[m] # None
                          /\ items_details[m].children = items_details[k].children)
                      => /\ items_details[m].category = items_details[k].category
                         /\ items_details[m].reasoning = items_details[k].reasoning
                         /\ items_details[m].action = items_details[k].action
                /\ HasCounts(items_details[k], 2, 0, 0)
                      => CategoryIs(items_details[k], "multiple_pdfs", "HIGH")
                /\ HasCounts(items_details[k], 1, 1, 0)
                      => CategoryIs(items_details[k], "pdf_plus_notes", "LOW")
                /\ HasCounts(items_details[k], 0, 0, 3)
                      => CategoryIs(items_details[k], "mixed_content", "MEDIUM")
                /\ HasCounts(items_details[k], 0, 0, 0)
                      => CategoryIs(items_details[k], "uncertain", "MEDIUM")

C14_Witness ==
    /\ pc = "inspection_done"
    /\ Len(items_details) = 2
    /\ HasCounts(items_details[1], 0, 0, 3)
    /\ items_details[1].category = "mixed_content"
    /\ HasCounts(items_details[2], 2, 0, 0)
    /\ items_details[2].category = "multiple_pdfs"

\* the numbers of PDF children and of note children of a fetched item
PdfCount(item) == CountOf(item, PdfChild)

NoteCount(item) == CountOf(item, NoteChild)

MatchesRules1To3(item) ==
    \/ PdfCount(item) >= 2 /\ NoteCount(item) = 0
    \/ PdfCount(item) >= 1 /\ NoteCount(item) >= 1
    \/ PdfCount(item) = 0 /\ NoteCount(item) >= 2

\* C15: rule 4: an item matching none of rules 1-3 is mixed_content when it
\* has more children than PDFs plus notes (a child that is neither), and
\* uncertain only when it has no such child.
C15_Rule4OtherChild ==
    Reported =>
        \A k \in 1..Len(items_details) :
            (items_details[k] # None /\ ~MatchesRules1To3(items_details[k])) =>
                items_details[k].category =
                    IF Len(items_details[k].children)
                           > PdfCount(items_details[k]) + NoteCount(items_details[k])
                    THEN "mixed_content" ELSE "uncertain"

\* the entries for the key in all the report categories together
CategoryEntries(key) ==
    Cardinality({e \in Categories \X (1..MaxFlagged + 1) :
                    e[2] <= Len(categorised[e[1]]) /\ categorised[e[1]][e[2]].key = key})

\* the entries for the key in the JSON export
JsonEntries(key) ==
    Cardinality({j \in 1..Len(files["multiple_attachments_details.json"].items) :
                    files["multiple_attachments_details.json"].items[j].key = key})

\* every flagged record is attempted once, in input order, and the run does
\* not exit before its end, where it exits with status 0; once it is complete
\* the failed records have no entry in the outputs, the others one
C16_EachAttemptedOnce ==
    /\ Len(attempts) = inspect_i - 1
    /\ Len(attempts) <= Len(flagged_df)
    /\ \A k \in 1..Len(attempts) : attempts[k].key = flagged_df[k].key
    /\ exit_code = (IF pc = "inspection_done" THEN 0 ELSE -1)
    /\ pc = "inspection_done" =>
          /\ Len(attempts) = Len(flagged_df)
          /\ \A k \in 1..Len(attempts) :
                /\ CategoryEntries(attempts[k].key) = (IF attempts[k].ok THEN 1 ELSE 0)
                /\ JsonEntries(attempts[k].key) = (IF attempts[k].ok THEN 1 ELSE 0)

\* C16: a failure of zot.item or zot.children for one flagged record never
\* aborts the batch: every flagged record is attempted exactly once in input
\* order, a failed record has no entry in the report categories or the JSON
\* export, a fetched one exactly one, and the run reaches its summary.
C16_FailuresNeverAbort == []C16_EachAttemptedOnce /\ <>(pc = "inspection_done")

C16_Witness ==
    /\ pc = "inspection_done"
    /\ Len(attempts) = 2
    /\ ~attempts[1].ok
    /\ attempts[2].ok
    /\ items_details[1] = None
    /\ JsonEntries("F1") = 0
    /\ JsonEntries("F2") = 1

\* C17: the final summary reports the number of processed records and the
\* number of skipped ones, and they add up to the number of flagged records.
C17_SummaryReportsSkipped ==
    pc = "inspection_done" =>
        /\ "retrieved" \in DOMAIN summary
        /\ "skipped" \in DOMAIN summary
        /\ summary.retrieved + summary.skipped = Len(flagged_df)


(***************************************************************************)
(* fetch_all_items: pages, termination, snapshot.                          *)
(***************************************************************************)
Unchanging == inserted = 0 /\ deleted = 0

\* the requests so far are at offsets 0, limit, 2*limit, ..., all with the
\* same limit; only the last one of a finished fetch got an empty page; the
\* records returned are the records of the source, once each, in its order
C18_PagesOfUnchangingSource ==
    Unchanging =>
        /\ \A k \in 1..Len(requests) :
              /\ requests[k].start = (k - 1) * limit
              /\ requests[k].limit = limit
              /\ requests[k].size = 0 <=> (pc = "fetched" /\ k = Len(requests))
        /\ pc = "fetched" =>
              /\ items = library
              /\ Len(requests) = (Len(library) + limit - 1) \div limit + 1

\* C18: on a source of N records that does not change, fetch_all_items asks
\* for the pages at offsets 0, limit, 2*limit, ... with a fixed limit, stops
\* at the first empty page and not at a shorter non-empty one, terminates,
\* and returns all N records exactly once in source order.
C18_FetchAllOfUnchangingSource ==
    []C18_PagesOfUnchangingSource /\ <>(pc = "fetched" \/ ~Unchanging)

C18_Witness ==
    /\ pc = "fetched"
    /\ Unchanging
    /\ Len(library) = 3
    /\ items = library
    /\ Len(requests) = 3
    /\ requests[2].size = 1
    /\ requests[3].size = 0

\* no two entries of the returned collection carry the same id
UniqueIds == \A i, j \in 1..Len(items) : items[i].key = items[j].key => i = j

\* the ids of the records that were at the source from the first request to
\* the last: those of the initial library that are still there
PresentThroughout == {r.key : r \in {x \in Range(library) : x.key <= MaxRecords}}

NoneMissing == \A id \in PresentThroughout : \E i \in 1..Len(items) : items[i].key = id

\* C19 as stated: whatever insertions and deletions happen at the source
\* between the page fetches, the returned collection has no id twice and
\* misses no record that was at the source throughout the fetch.
C19_SnapshotUnderMutation == pc = "fetched" => (UniqueIds /\ NoneMissing)

\* C19, amended: the returned collection has no id twice when no record is
\* inserted at the source between the page fetches, and misses no record
\* present throughout when none is deleted between them.
C19_SnapshotWithoutInsertOrDelete ==
    pc = "fetched" =>
        /\ inserted = 0 => UniqueIds
        /\ deleted = 0 => NoneMissing

C19_Witness ==
    /\ pc = "fetched"
    /\ inserted = 0
    /\ deleted > 0
    /\ UniqueIds
    /\ ~NoneMissing


(***************************************************************************)
(* The hand-off file.                                                      *)
(***************************************************************************)
\* C20: save_raw_tags followed by load_tag_data returns the tag table and
\* the statistics that extract_tags_from_items produced: the same tags in
\* the same order, each with the same count, item ids and item titles, and
\* the same statistics fields and values.
C20_HandOffRoundTrip ==
    /\ "raw_tags.json" \in DOMAIN files =>
          /\ load_tag_data(files["raw_tags.json"]).tags = tag_data
          /\ load_tag_data(files["raw_tags.json"]).stats = stats
    /\ pc = "find_similar_tags" => tags = tag_data

\* a table whose names are written with escapes went through the file
C20_Witness ==
    /\ pc = "find_similar_tags"
    /\ tags = tag_data
    /\ DictHas(tags, BackslashN)
    /\ DictHas(tags, Newline)
    /\ DictHas(tags, Quoted)
    /\ DictGet(tags, Newline).items = <<"R1", "R2">>
    /\ \E k \in 1..Len(tags) :
          files["raw_tags.json"].members[2].value.members[k].name.chars # tags[k].key
    /\ load_tag_data(files["raw_tags.json"]).stats = stats
    /\ stats.avg_tags_per_item = [num |-> 2, den |-> 1]


(***************************************************************************)
(* Stage 1 as a whole.                                                     *)
(***************************************************************************)
Stage1Outputs == {"raw_tags.json", "tag_frequency.csv", "tag_summary.md"}

\* C21: stage 1 is all-or-nothing: a run in which a step fails exits with
\* code 1 and has written none of raw_tags.json, tag_frequency.csv and
\* tag_summary.md; a run that completes has written all three.
C21_Stage1AllOrNothing ==
    /\ pc = "stage1_aborted" => (exit_code = 1 /\ DOMAIN files \cap Stage1Outputs = {})
    /\ pc = "stage1_done" => Stage1Outputs \subseteq DOMAIN files


(***************************************************************************)
(* From stage 2 to stage 3.                                                *)
(***************************************************************************)
\* C22: after a stage-2 run the file quality_multiple_attachments.csv exists
\* and holds exactly the records the run put in the multiple_attachments
\* bucket, also when the bucket is empty and when an earlier run left a file;
\* a following stage-3 run inspects exactly those records.
C22_Stage3ReadsFlaggedSubset ==
    /\ pc \in {"quality_done", "stage2_done"} =>
          /\ FlaggedCsv \in DOMAIN files
          /\ files[FlaggedCsv] = issues.multiple_attachments
    /\ pc = "inspection_aborted" => FALSE
    /\ pc = "fetch_item_details" => flagged_df = issues.multiple_attachments

(***************************************************************************)
(* Stage 2 as a whole.                                                     *)
(***************************************************************************)
\* the files the stage-2 run has written: raw_tags.json is its input
WrittenByStage2 == DOMAIN files \ {"raw_tags.json"}

\* C23: the completion summary of a stage-2 run lists exactly the files the
\* run produced: every file named under "Outputs created" was written, and
\* every file written is named.
C23_SummaryListsArtifacts ==
    pc = "stage2_done" => OutputsCreated = WrittenByStage2

(***************************************************************************)
(* Configuration.                                                          *)
(***************************************************************************)
OnlyLegacyKey ==
    /\ ~Not(env.ZOTERO_GROUP_ID)
    /\ Not(env.ZOTERO_API_KEY_READONLY)
    /\ Not(env.ZOTERO_API_KEY_READWRITE)
    /\ ~Not(env.ZOTERO_API_KEY)

NoKeyOrNoGroup ==
    \/ Not(env.ZOTERO_GROUP_ID)
    \/ /\ Not(env.ZOTERO_API_KEY_READONLY)
       /\ Not(env.ZOTERO_API_KEY_READWRITE)
       /\ Not(env.ZOTERO_API_KEY)

\* C24: with ZOTERO_GROUP_ID and only the legacy ZOTERO_API_KEY set, the
\* validation passes and the script authenticates with the legacy key; with
\* no key at all or no group id the import raises before any step runs.
C24_LegacyKeyFallback ==
    /\ OnlyLegacyKey =>
          /\ pc # "config_error"
          /\ zot # None => zot.api_key = env.ZOTERO_API_KEY
    /\ NoKeyOrNoGroup =>
          /\ pc \in {"import_config", "config_error"}
          /\ zot = None
          /\ files = NoFiles

(***************************************************************************)
(* Stage 1: records that lack a title, a tag list or a tag name.           *)
(***************************************************************************)
HasNoTitle(item) == "title" \notin DOMAIN item.data

HasNoTagList(item) == "tags" \notin DOMAIN item.data

\* a tag object whose name is missing or empty
Unnamed(tag_obj) == "tag" \notin DOMAIN tag_obj \/ tag_obj.tag = EmptyName

TagObjectsOf(item) == IF HasNoTagList(item) THEN <<>> ELSE item.data.tags

\* the names of the tag objects of the records that carry a name
NamesApplied ==
    UNION { {TagObjectsOf(items[i])[j].tag :
                j \in {n \in 1..Len(TagObjectsOf(items[i])) :
                          ~Unnamed(TagObjectsOf(items[i])[n])}} :
            i \in 1..Len(items) }

\* the titles the table lists for a record
TitlesListedFor(item_id) ==
    UNION { {tag_data[k].val.item_titles[j] :
                j \in {n \in 1..Len(tag_data[k].val.items) :
                          tag_data[k].val.items[n] = item_id}} :
            k \in 1..Len(tag_data) }

\* C25: extract_tags_from_items tolerates degraded records: a record with
\* no title is listed under '[No Title]', a record with no tag list counts as
\* untagged and is listed under no tag, and a tag object whose name is
\* missing or empty adds no entry to the table; the extraction completes.
C25_DegradedInputTolerated ==
    pc = "save_raw_tags" =>
        /\ \A i \in 1..Len(items) :
              /\ HasNoTitle(items[i]) => TitlesListedFor(items[i].key) \subseteq {NoTitle}
              /\ HasNoTagList(items[i]) => TitlesListedFor(items[i].key) = {}
        /\ stats.items_without_tags
              = Cardinality({i \in 1..Len(items) : TagObjectsOf(items[i]) = <<>>})
        /\ Range(DictKeys(tag_data)) = NamesApplied
        /\ EmptyName \notin Range(DictKeys(tag_data))

\* a record without a title that carries a named tag and a tag object
\* without a name, a record without a tag list, and a tag with an empty name
C25_Witness ==
    /\ pc = "save_raw_tags"
    /\ \E i \in 1..Len(items) :
          /\ HasNoTitle(items[i])
          /\ TitlesListedFor(items[i].key) = {NoTitle}
          /\ \E j \in 1..Len(TagObjectsOf(items[i])) :
                "tag" \notin DOMAIN TagObjectsOf(items[i])[j]
    /\ \E i \in 1..Len(items) : HasNoTagList(items[i])
    /\ \E i \in 1..Len(items) :
          \E j \in 1..Len(TagObjectsOf(items[i])) :
              /\ "tag" \in DOMAIN TagObjectsOf(items[i])[j]
              /\ TagObjectsOf(items[i])[j].tag = EmptyName

(***************************************************************************)
(* Stage 1: the statistics.                                                *)
(***************************************************************************)
\* the number of tag objects of a record that carry a name
NamedTagsOf(item) ==
    Cardinality({j \in 1..Len(TagObjectsOf(item)) : ~Unnamed(TagObjectsOf(item)[j])})

\* C26: the statistics are consistent with the table and with each other:
\* items_with_tags + items_without_tags = total_items, unique_tags is the
\* number of keys, total_tag_applications is the sum of the counts and the
\* sum of the per-record tag counts behind the average (so the average times
\* items_with_tags is total_tag_applications), and every record counted in
\* items_with_tags contributes at least one application.
C26_StatisticsConsistent ==
    pc = "save_raw_tags" =>
        /\ stats.items_with_tags + stats.items_without_tags = stats.total_items
        /\ stats.unique_tags = Len(tag_data)
        /\ stats.total_tag_applications
              = SumSeq([k \in 1..Len(tag_data) |-> tag_data[k].val.count])
        /\ AsFraction(stats.avg_tags_per_item).num * stats.items_with_tags
              = stats.total_tag_applications * AsFraction(stats.avg_tags_per_item).den
        /\ stats.items_with_tags
              = Cardinality({i \in 1..Len(items) : NamedTagsOf(items[i]) >= 1})

(***************************************************************************)
(* Stage 2: the bounds of a co-occurrence count.                           *)
(***************************************************************************)
\* the item list of the tag names a record more than once
ListsRecordTwice(tag) ==
    Len(DictGet(tags, tag).items) > Cardinality(Range(DictGet(tags, tag).items))

\* C27: every pair calculate_cooccurrence emits has
\* 1 <= count <= min(tag1_total, tag2_total), the totals being the counts of
\* the two tags in the tag table, also when the item list of a tag names the
\* same record more than once.
C27_CountWithinTotals ==
    CoocDone =>
        \A k \in 1..Len(cooccurrence_list) :
            /\ cooccurrence_list[k].tag1_total = DictGet(tags, cooccurrence_list[k].tag1).count
            /\ cooccurrence_list[k].tag2_total = DictGet(tags, cooccurrence_list[k].tag2).count
            /\ cooccurrence_list[k].count >= 1
            /\ cooccurrence_list[k].count <= cooccurrence_list[k].tag1_total
            /\ cooccurrence_list[k].count <= cooccurrence_list[k].tag2_total

\* a pair was emitted whose first tag lists a record twice and whose count
\* equals the total of its second tag, and another pair of count 2
C27_Witness ==
    /\ CoocDone
    /\ pc = "save_similar_tags"
    /\ \E k \in 1..Len(cooccurrence_list) :
          /\ ListsRecordTwice(cooccurrence_list[k].tag1)
          /\ cooccurrence_list[k].count = cooccurrence_list[k].tag2_total
          /\ cooccurrence_list[k].count < cooccurrence_list[k].tag1_total
    /\ \E k \in 1..Len(cooccurrence_list) : cooccurrence_list[k].count = 2

(***************************************************************************)
(* Stage 3: the order of the rules.                                        *)
(***************************************************************************)
\* the orders of rules 1 to 3, each followed by rule 4
Rules123Orders ==
    { <<1, 2, 3, 4>>, <<1, 3, 2, 4>>, <<2, 1, 3, 4>>,
      <<2, 3, 1, 4>>, <<3, 1, 2, 4>>, <<3, 2, 1, 4>> }

\* the three fields the report adds to an item
Verdict(item) ==
    [category |-> item.category, reasoning |-> item.reasoning, action |-> item.action]

\* at most one of the conditions of rules 1 to 3 holds of the counts, and
\* the chain gives the verdict in every order of rules 1 to 3
OrderIrrelevant(verdict, pdfs, notes, attachments) ==
    /\ Cardinality({r \in 1..3 : RuleGuard(r, pdfs, notes, attachments)}) <= 1
    /\ \A order \in Rules123Orders :
          FirstMatch(order, 1, pdfs, notes, attachments) = verdict

\* C28: the conditions of rules 1 to 3 of categorise_attachment_pattern are
\* pairwise disjoint, so the category, reasoning and action of every item are
\* the same under every order of these three rules followed by rule 4 and
\* the else branch.
C28_Rules123Commute ==
    Reported =>
        \A k \in 1..Len(items_details) :
            items_details[k] # None =>
                OrderIrrelevant(Verdict(items_details[k]),
                                num_pdfs(items_details[k].children),
                                num_notes(items_details[k].children),
                                num_attachments(items_details[k].children))

\* the first item meets rule 1 and the condition of rule 4, and rule 4 put
\* first would give another category; the second item meets rule 3
C28_Witness ==
    /\ pc = "inspection_done"
    /\ Len(items_details) = 2
    /\ HasCounts(items_details[1], 2, 0, 1)
    /\ items_details[1].category = "multiple_pdfs"
    /\ FirstMatch(<<4, 1, 2, 3>>, 1, 2, 0, 3).category = "mixed_content"
    /\ HasCounts(items_details[2], 0, 2, 0)
    /\ items_details[2].category = "multiple_notes"

(***************************************************************************)
(* Stage 3: the category lists and the JSON export.                        *)
(***************************************************************************)
DetailsJson == files["multiple_attachments_details.json"]

\* the positions of items_details holding a fetched record of the category
FetchedOf(category) ==
    {k \in 1..Len(items_details) :
        items_details[k] # None /\ items_details[k].category = category}

\* the category lists that hold the item
ListsHolding(item) ==
    {c \in Categories : \E j \in 1..Len(categorised[c]) : categorised[c][j] = item}

CategorySizes ==
    Len(categorised["multiple_pdfs"]) + Len(categorised["pdf_plus_notes"])
        + Len(categorised["multiple_notes"]) + Len(categorised["mixed_content"])
        + Len(categorised["uncertain"])

\* C29: once stage 3 has written its outputs, every fetched record is in
\* exactly one of the five category lists, the sizes of the lists sum to
\* total_items of the JSON export, and every item of the export carries
\* category, reasoning and action.
C29_CategoriesPartitionFetched ==
    pc \in {"inspection_summary", "inspection_done"} =>
        /\ \A k \in 1..Len(items_details) :
              items_details[k] # None =>
                  ListsHolding(items_details[k]) = {items_details[k].category}
        /\ \A c \in Categories : Len(categorised[c]) = Cardinality(FetchedOf(c))
        /\ CategorySizes = DetailsJson.total_items
        /\ DetailsJson.total_items = Len(DetailsJson.items)
        /\ \A j \in 1..Len(DetailsJson.items) :
              /\ {"category", "reasoning", "action"} \subseteq DOMAIN DetailsJson.items[j]
              /\ DetailsJson.items[j].category \in Categories

\* two records were fetched and fell into two categories
C29_Witness ==
    /\ pc = "inspection_done"
    /\ Len(items_details) = 2
    /\ items_details[1] # None
    /\ items_details[2] # None
    /\ items_details[1].category # items_details[2].category
    /\ DetailsJson.total_items = 2
    /\ CategorySizes = 2

\* one of two flagged records could not be fetched
C29_WitnessSkipped ==
    /\ pc = "inspection_done"
    /\ Len(items_details) = 2
    /\ items_details[1] = None
    /\ items_details[2] # None
    /\ DetailsJson.total_items = 1

\* C30: a stage-2 run whose raw_tags.json is present completes the tag
\* analysis phase for every tag table, the empty table and a table without a
\* similar pair included; the run aborts, with exit code 1, only when the
\* file is missing or when the source cannot be reached.
C30_TagAnalysisCompletes ==
    pc = "aborted" =>
        /\ exit_code = 1
        /\ \/ "raw_tags.json" \notin DOMAIN files
           \/ "tag_analysis.md" \in DOMAIN files


=============================================================================
